---- MODULE Spec2Model ----
(***************************************************************************)
(* Model of the account store (dal/account.js) and of the password sign-in *)
(* path of the site (routes/site.js) of ExpressMultiPassport.              *)
(*                                                                         *)
(* Every database call the code awaits is one atomic step of a request     *)
(* task; the synchronous code between two awaits belongs to the step that  *)
(* precedes it.  Several request tasks run interleaved on one table.       *)
(***************************************************************************)
EXTENDS Integers, Sequences, FiniteSets, TLC

VARIABLES
    account,    \* the rows of table "account", in insertion order
    clock,      \* the database clock, NOW()
    task,       \* per request task: position and locals of the call in flight
    last,       \* the outcome of the call that completed most recently
    session,    \* the browser's server-side session: passport user and errorMessage
    cookies     \* the browser's signed restore cookies

vars == <<account, clock, task, last, session, cookies>>

----------------------------------------------------------------------------
(* Bounds of the model *)

NumProcs == 2
MaxAccounts == 2
MaxSession == 3
MaxClock == 1

Procs == 1..NumProcs
Emails == {"a@b.com", "c@d.com"}
RawPasswords == {"Aa1!aaaa", "aW6+test"}
Nicknames == {"a", "b"}
Tokens == {"t1", "t2"}

\* the emails of the accounts that have signed up: none, one, two of two
\* emails, two of one email, one without email
EmailLists ==
    {<<>>, <<"a@b.com">>, <<"a@b.com", "c@d.com">>, <<"a@b.com", "a@b.com">>}
EmailListsOrEmpty == EmailLists \cup {<<"">>}
EmailsOrEmpty == Emails \cup {""}
Salts == {1}

----------------------------------------------------------------------------
(* Password hasher.  A hex string is a sequence of segments; a segment is  *)
(* a run of characters of known length: the hex form of an scrypt key, the *)
(* hex form of a salt buffer, or literal non-hex text.                     *)

SCRYPT_SALT_LENGTH == 64
SCRYPT_KEY_LENGTH == 128
SCRYPT_SALT_IN_STRING == 2 * SCRYPT_KEY_LENGTH

RECURSIVE StrLength(_)
StrLength(str) ==
    IF str = <<>> THEN 0 ELSE Head(str).len + StrLength(Tail(str))

\* Buffer.toString('hex')
ToHex(buf) ==
    IF buf.len = 0 THEN <<>> ELSE <<[kind |-> buf.kind, of |-> buf.of, len |-> 2 * buf.len]>>

\* Buffer.from(str, 'hex'): decodes up to the first character that is not hex
BufferFromHex(str) ==
    IF str = <<>> \/ Head(str).kind = "text"
    THEN [kind |-> "salt", of |-> <<>>, len |-> 0]
    ELSE [kind |-> Head(str).kind, of |-> Head(str).of, len |-> Head(str).len \div 2]

\* crypto.randomBytes(SCRYPT_SALT_LENGTH); s names the value drawn
RandomSalt(s) == [kind |-> "salt", of |-> <<s>>, len |-> SCRYPT_SALT_LENGTH]

\* crypto.scryptSync(rawString, salt, keylen): a key of keylen bytes that is
\* determined by rawString and salt
ScryptSync(rawString, salt, keylen) ==
    [kind |-> "key", of |-> <<rawString, salt.of, salt.len>>, len |-> keylen]

\* String.prototype.substring(from)
RECURSIVE Substring(_, _)
Substring(str, from) ==
    IF str = <<>> THEN <<>>
    ELSE IF from = 0 THEN str
    ELSE IF from >= Head(str).len THEN Substring(Tail(str), from - Head(str).len)
    ELSE <<[kind |-> "text", of |-> <<Head(str), from>>, len |-> Head(str).len - from]>>
         \o Tail(str)

StartsWith(str, prefix) ==
    /\ Len(str) >= Len(prefix)
    /\ SubSeq(str, 1, Len(prefix)) = prefix

EndsWith(str, suffix) ==
    /\ Len(str) >= Len(suffix)
    /\ SubSeq(str, Len(str) - Len(suffix) + 1, Len(str)) = suffix

\* mutant: an account without password stores the record of a password
SentinelOfPassword ==
    ToHex(ScryptSync("Aa1!aaaa", RandomSalt(1), SCRYPT_KEY_LENGTH)) \o ToHex(RandomSalt(1))

\* the password stored for an account without password
SENTINEL == <<[kind |-> "text", of |-> <<"x">>, len |-> 1]>>

\* mutant: the salt is a constant of the program
makeHashFixedSalt(rawString, s) ==
    LET salt == RandomSalt(0)
        cypher == ScryptSync(rawString, salt, SCRYPT_KEY_LENGTH)
    IN  ToHex(cypher) \o ToHex(salt)

makeHash(rawString, s) ==
    LET salt == RandomSalt(s)
        cypher == ScryptSync(rawString, salt, SCRYPT_KEY_LENGTH)
    IN  ToHex(cypher) \o ToHex(salt)

checkHash(rawString, fullRecord) ==
    LET hexSalt == Substring(fullRecord, SCRYPT_SALT_IN_STRING)
        salt == BufferFromHex(hexSalt)
        cypher == ScryptSync(rawString, salt, SCRYPT_KEY_LENGTH)
        hexCypher == ToHex(cypher)
    IN  IF StrLength(hexSalt) + StrLength(hexCypher) = StrLength(fullRecord)
        THEN StartsWith(fullRecord, hexCypher) /\ EndsWith(fullRecord, hexSalt)
        ELSE FALSE

\* a raw string and a stored record that are null or undefined
RawUndefined == "undefined"
NullRecord == <<[kind |-> "null", of |-> <<>>, len |-> 0]>>

\* fullRecord.substring of null or undefined, and scryptSync of a rawString
\* that is no string, throw a TypeError
checkHashThrows(rawString, fullRecord) ==
    \/ fullRecord = NullRecord
    \/ rawString = RawUndefined

\* the checkHash of a caller that found exactly one row throws
hashTestThrows(oldUserList, rawString) ==
    /\ 1 = Len(oldUserList)
    /\ checkHashThrows(rawString, oldUserList[1].password)

----------------------------------------------------------------------------
(* Database access helpers *)

NULL == <<>>

\* mutant: the test misses a single row
hasDataSeveral(dataRows) == Len(dataRows) > 1

hasData(dataRows) == Len(dataRows) > 0

\* result is NULL when no statement ran, else <<count>>
getUpdateCount(result) == IF result = NULL THEN 0 ELSE result[1]

findUsersByEmail(email) == SelectSeq(account, LAMBDA row : row.email = email)

\* prisma updateMany: the rows after the update, and the result
Matching(Where(_)) == {i \in DOMAIN account : Where(account[i])}

UpdateMany(Where(_), Set(_)) ==
    [i \in DOMAIN account |-> IF Where(account[i]) THEN Set(account[i]) ELSE account[i]]

UpdateResult(Where(_)) == <<Cardinality(Matching(Where))>>

----------------------------------------------------------------------------
(* Request tasks *)

Idle ==
    [pc |-> "idle", op |-> "none", email |-> "", password |-> "", nickname |-> "",
     verified |-> FALSE, isRestored |-> FALSE, verifyToken |-> "", hash |-> NULL,
     now |-> 0, id |-> 0, rememberMe |-> FALSE, lastPage |-> "",
     totalCount |-> 0, todayActive |-> 0,
     options |-> [strongLength |-> 0, enableSampleMessage |-> FALSE],
     passwordInput |-> <<>>, passwordConfirm |-> <<>>, salt |-> 0,
     oldPassword |-> ""]

\* a browser without cookies of the site
NoCookies == [user |-> "", loginType |-> "", password |-> "", lastPage |-> ""]

NoCall == [op |-> "none", email |-> "", kind |-> "none", val |-> FALSE]

\* task p completes its call: the value is returned or the error thrown
Finish(p, op, email, kind, val) ==
    /\ last' = [op |-> op, email |-> email, kind |-> kind, val |-> val]
    /\ task' = [task EXCEPT ![p] = Idle]

Goto(p, t) ==
    /\ task' = [task EXCEPT ![p] = t]
    /\ UNCHANGED last

\* tasks that will still insert a row
PendingInsert == {q \in Procs : task[q].pc \in {"su_find", "su_now", "su_create"}}

\* tasks that will still bump the counters of the rows of an email
PendingSession(email) ==
    {q \in Procs : task[q].pc \in {"us_find", "us_update"} /\ task[q].email = email}

Init ==
    /\ account = <<>>
    /\ clock = 0
    /\ task = [p \in Procs |-> Idle]
    /\ last = NoCall
    /\ session = [user |-> "", errorMessage |-> ""]
    /\ cookies = NoCookies

\* the table after the sign-ups of emails with passwords, one after the other
SignedUp(emails, passwords, s) ==
    [i \in DOMAIN emails |->
        [id |-> i, nickname |-> "a", email |-> emails[i],
         password |-> IF passwords[i] # "" THEN makeHash(passwords[i], s) ELSE SENTINEL,
         created |-> 0, login_count |-> 0, session_count |-> 0, session |-> NULL,
         verified |-> FALSE, verify_token |-> "NULL"]]

\* the state once the accounts of a table have signed up
InitSignedUp(lists, raws) ==
    /\ \E emails \in lists : \E passwords \in [DOMAIN emails -> raws] :
          \E s \in Salts : account = SignedUp(emails, passwords, s)
    /\ clock = 0
    /\ task = [p \in Procs |-> Idle]
    /\ last = NoCall
    /\ session = [user |-> "", errorMessage |-> ""]
    /\ cookies = NoCookies

Tick ==
    /\ clock < MaxClock
    /\ clock' = clock + 1
    /\ UNCHANGED <<account, task, last, session, cookies>>

----------------------------------------------------------------------------
(* Account.commonSignUp, entered from emailSignUp and from auth0SignIn *)

\* findUsersByEmail, the duplicate test and the hash of the new row
SignUpFind(p, t) ==
    LET oldUserList == findUsersByEmail(t.email) IN
    IF hasData(oldUserList)
    THEN Finish(p, t.op, t.email, "throw", "E-mail was already used")
    ELSE \E s \in Salts :
            LET hash == IF t.password # "" THEN makeHash(t.password, s) ELSE SENTINEL
            IN  Goto(p, [t EXCEPT !.pc = "su_now", !.hash = hash])

emailSignUp(p, email, password, nickname) ==
    /\ task[p].pc = "idle"
    /\ hasData(findUsersByEmail(email)) \/ Len(account) + Cardinality(PendingInsert) < MaxAccounts
    /\ SignUpFind(p, [Idle EXCEPT !.op = "emailSignUp", !.email = email,
                                  !.password = password, !.nickname = nickname,
                                  !.verified = FALSE])
    /\ UNCHANGED <<account, clock, session, cookies>>

\* auth0SignIn: the first findUsersByEmail
auth0SignIn(p, email, nickname) ==
    /\ task[p].pc = "idle"
    /\ LET oldUserList == findUsersByEmail(email) IN
       IF ~hasData(oldUserList)
       THEN /\ Len(account) + Cardinality(PendingInsert) < MaxAccounts
            /\ Goto(p, [Idle EXCEPT !.pc = "su_find", !.op = "auth0SignIn", !.email = email,
                                    !.password = "", !.nickname = nickname,
                                    !.verified = TRUE])
       ELSE Finish(p, "auth0SignIn", email, "return", 1 = Len(oldUserList))
    /\ UNCHANGED <<account, clock, session, cookies>>

\* commonSignUp called by auth0SignIn: its own findUsersByEmail
commonSignUpFind(p) ==
    /\ task[p].pc = "su_find"
    /\ SignUpFind(p, task[p])
    /\ UNCHANGED <<account, clock, session, cookies>>

\* DbAccess.getDbNow
commonSignUpNow(p) ==
    /\ task[p].pc = "su_now"
    /\ Goto(p, [task[p] EXCEPT !.pc = "su_create", !.now = clock])
    /\ UNCHANGED <<account, clock, session, cookies>>

\* mutant: every new account starts unverified
NewRowUnverified(t) ==
    [id |-> Len(account) + 1, nickname |-> t.nickname, email |-> t.email,
     password |-> t.hash, created |-> t.now, login_count |-> 0, session_count |-> 0,
     session |-> NULL, verified |-> FALSE, verify_token |-> "NULL"]

NewRow(t) ==
    [id |-> Len(account) + 1, nickname |-> t.nickname, email |-> t.email,
     password |-> t.hash, created |-> t.now, login_count |-> 0, session_count |-> 0,
     session |-> NULL, verified |-> t.verified, verify_token |-> "NULL"]

\* prisma.account.createMany
commonSignUpCreate(p) ==
    /\ task[p].pc = "su_create"
    /\ account' = Append(account, NewRow(task[p]))
    /\ IF task[p].op = "auth0SignIn"
       THEN Goto(p, [task[p] EXCEPT !.pc = "a0_refind"])
       ELSE IF task[p].op = "POST /signup/password"
       THEN Goto(p, [task[p] EXCEPT !.pc = "sp_signin"])
       ELSE Finish(p, task[p].op, task[p].email, "return", getUpdateCount(<<1>>))
    /\ UNCHANGED <<clock, session, cookies>>

\* auth0SignIn: the second findUsersByEmail
auth0SignInRefind(p) ==
    /\ task[p].pc = "a0_refind"
    /\ Finish(p, "auth0SignIn", task[p].email, "return",
              1 = Len(findUsersByEmail(task[p].email)))
    /\ UNCHANGED <<account, clock, session, cookies>>

----------------------------------------------------------------------------
(* Account.emailSignIn *)

\* mutant: the first row found is checked, however many rows match
emailSignInFirstRow(email, password) ==
    LET oldUserList == findUsersByEmail(email) IN
    IF hasData(oldUserList)
    THEN checkHash(password, oldUserList[1].password)
    ELSE FALSE

emailSignInResult(email, password) ==
    LET oldUserList == findUsersByEmail(email) IN
    IF 1 = Len(oldUserList)
    THEN checkHash(password, oldUserList[1].password)
    ELSE FALSE

emailSignIn(p, email, password) ==
    /\ task[p].pc = "idle"
    /\ IF hashTestThrows(findUsersByEmail(email), password)
       THEN Finish(p, "emailSignIn", email, "throw", "TypeError")
       ELSE Finish(p, "emailSignIn", email, "return", emailSignInResult(email, password))
    /\ UNCHANGED <<account, clock, session, cookies>>

----------------------------------------------------------------------------
(* Account.changeUserPassword *)

\* mutant: the old password is checked against the first row found
isOldHashValidFirstRow(oldUserList, oldPassword) ==
    IF hasData(oldUserList)
    THEN checkHash(oldPassword, oldUserList[1].password)
    ELSE FALSE

\* the test of the old password on the rows found
isOldHashValid(oldUserList, oldPassword) ==
    IF hasData(oldUserList) /\ 1 = Len(oldUserList)
    THEN checkHash(oldPassword, oldUserList[1].password)
    ELSE FALSE

\* mutant: the new password is compared with the old one only after the old
\* one was checked
changeUserPasswordLateTest(p, email, oldPassword, newPassword) ==
    /\ task[p].pc = "idle"
    /\ LET oldUserList == findUsersByEmail(email) IN
       IF hashTestThrows(oldUserList, oldPassword)
       THEN Finish(p, "changeUserPassword", email, "throw", "TypeError")
       ELSE IF ~isOldHashValid(oldUserList, oldPassword)
       THEN Finish(p, "changeUserPassword", email, "throw", "Old Password not match")
       ELSE IF oldPassword = newPassword
       THEN Finish(p, "changeUserPassword", email, "throw",
                   "New Password is the same as Old Password")
       ELSE LET row == oldUserList[1] IN
            IF row.id # 0 /\ row.email # ""
            THEN \E s \in Salts :
                   Goto(p, [Idle EXCEPT !.pc = "cp_update", !.op = "changeUserPassword",
                                        !.id = row.id, !.email = row.email,
                                        !.password = newPassword,
                                        !.oldPassword = oldPassword,
                                        !.hash = makeHash(newPassword, s)])
            ELSE Finish(p, "changeUserPassword", email, "return", getUpdateCount(NULL))
    /\ UNCHANGED <<account, clock, session, cookies>>

changeUserPassword(p, email, oldPassword, newPassword) ==
    /\ task[p].pc = "idle"
    /\ IF oldPassword = newPassword
       THEN Finish(p, "changeUserPassword", email, "throw",
                   "New Password is the same as Old Password")
       ELSE LET oldUserList == findUsersByEmail(email)
            IN  IF hashTestThrows(oldUserList, oldPassword)
                THEN Finish(p, "changeUserPassword", email, "throw", "TypeError")
                ELSE IF ~isOldHashValid(oldUserList, oldPassword)
                THEN Finish(p, "changeUserPassword", email, "throw", "Old Password not match")
                ELSE LET row == oldUserList[1] IN
                     IF row.id # 0 /\ row.email # ""
                     THEN \E s \in Salts :
                            Goto(p, [Idle EXCEPT !.pc = "cp_update",
                                                 !.op = "changeUserPassword",
                                                 !.id = row.id, !.email = row.email,
                                                 !.password = newPassword,
                                                 !.oldPassword = oldPassword,
                                                 !.hash = makeHash(newPassword, s)])
                     ELSE Finish(p, "changeUserPassword", email, "return",
                                 getUpdateCount(NULL))
    /\ UNCHANGED <<account, clock, session, cookies>>

\* the answers of POST /user/reset-password
RESET_PASSWORD == "POST /user/reset-password"
NotSignedIn == [status |-> 401, json |-> [isValid |-> FALSE, message |-> "Not signed in"]]
ResetFailed(message) == [status |-> 200, json |-> [isValid |-> FALSE, message |-> message]]
PasswordUpdated ==
    [status |-> 200, json |-> [isValid |-> TRUE, information |-> "Password updated"]]

\* the end of the handler once changeUserPassword has returned updateCount
resetPasswordResponse(updateCount) ==
    IF 1 = updateCount THEN PasswordUpdated ELSE ResetFailed("Failed to update password")

\* prisma.account.updateMany({ where: { id, email }, data: { password: newHash } })
\* and the return, to the calling task or to the handler of the route
changeUserPasswordUpdate(p) ==
    /\ task[p].pc = "cp_update"
    /\ LET Where(row) == row.id = task[p].id /\ row.email = task[p].email
           Set(row) == [row EXCEPT !.password = task[p].hash]
           updateCount == getUpdateCount(UpdateResult(Where))
       IN  /\ account' = UpdateMany(Where, Set)
           /\ IF task[p].op = RESET_PASSWORD
              THEN Finish(p, RESET_PASSWORD, task[p].email, "response",
                          resetPasswordResponse(updateCount))
              ELSE Finish(p, "changeUserPassword", task[p].email, "return", updateCount)
    /\ UNCHANGED <<clock, session, cookies>>

----------------------------------------------------------------------------
(* Account.changeUserNickname *)

\* mutant: the nickname is written to the column of the email
changeUserNicknameAsEmail(p, email, nickname) ==
    /\ task[p].pc = "idle"
    /\ LET Where(row) == row.email = email
           Set(row) == [row EXCEPT !.email = nickname]
       IN  IF email # "" /\ nickname # ""
           THEN /\ account' = UpdateMany(Where, Set)
                /\ Finish(p, "changeUserNickname", email, "return",
                          getUpdateCount(UpdateResult(Where)))
           ELSE /\ UNCHANGED account
                /\ Finish(p, "changeUserNickname", email, "return", getUpdateCount(NULL))
    /\ UNCHANGED <<clock, session, cookies>>

changeUserNickname(p, email, nickname) ==
    /\ task[p].pc = "idle"
    /\ LET Where(row) == row.email = email
           Set(row) == [row EXCEPT !.nickname = nickname]
       IN  IF email # "" /\ nickname # ""
           THEN /\ account' = UpdateMany(Where, Set)
                /\ Finish(p, "changeUserNickname", email, "return",
                          getUpdateCount(UpdateResult(Where)))
           ELSE /\ UNCHANGED account
                /\ Finish(p, "changeUserNickname", email, "return", getUpdateCount(NULL))
    /\ UNCHANGED <<clock, session, cookies>>

--------------------------------------------------------------------------------------------------------------------------------------------
(* Site: constants and response helpers *)

USER_HOME == "/user/dashboard"
RESTORED_LOGIN == "x"
LOCAL_LOGIN == "local"
ERROR_LOGIN_FAILED == "Incorrect E-mail or Password"

Redirect(location) == [status |-> 302, location |-> location]

\* Site.signRestoreUser
signRestoreUser(email, loginType) ==
    [cookies EXCEPT !.user = email,
                    !.loginType = IF loginType = "" THEN LOCAL_LOGIN ELSE loginType,
                    !.password = RESTORED_LOGIN]

\* Site.renderSignIn with an error: the message goes to the session and the
\* browser is sent back to the sign-in page
renderSignInError(p, op, email, message) ==
    /\ session' = [session EXCEPT !.errorMessage = message]
    /\ UNCHANGED cookies
    /\ Finish(p, op, email, "response", Redirect("/signin"))

\* the callback of passport.authenticate with a user, in localAuthenticate
\* and in tryRestoreLogin: req.login, the restore cookies and the redirect,
\* to the dashboard or, for a restored login, to the page of cookie lastPage
loginUser(p, op, email) ==
    /\ session' = [session EXCEPT !.user = email]
    /\ cookies' = signRestoreUser(email, "")
    /\ Finish(p, op, email, "response",
              Redirect(IF op = "GET /signin" /\ task[p].lastPage # ""
                       THEN task[p].lastPage ELSE USER_HOME))

\* the callback of passport.authenticate in POST /signup/password: the
\* strategy has called req.login, the callback redirects to the dashboard
signUpLogin(p, op, email) ==
    /\ session' = [session EXCEPT !.user = email]
    /\ UNCHANGED cookies
    /\ Finish(p, op, email, "response", Redirect(USER_HOME))

----------------------------------------------------------------------------
(* Account.updateSession, called by a task or by the strategy's verify *)

\* mutant: the restored session is counted as a login, not as a session
UPDATE_LOGIN_ONLY(row) ==
    [row EXCEPT !.login_count = 1 + row.login_count, !.session = <<clock>>]

UPDATE_SESSION_ONLY(row) ==
    [row EXCEPT !.session_count = 1 + row.session_count, !.session = <<clock>>]

\* mutant: the time of the session is left as it was
UPDATE_COUNTERS_LOGIN(row) ==
    [row EXCEPT !.session_count = 1 + row.session_count,
                !.login_count = 1 + row.login_count]

UPDATE_SESSION_LOGIN(row) ==
    [row EXCEPT !.session_count = 1 + row.session_count, !.session = <<clock>>,
                !.login_count = 1 + row.login_count]

\* the counters of the rows of an email can still be raised
SessionRoom(email) ==
    \A i \in DOMAIN account :
        account[i].email = email =>
            account[i].session_count + Cardinality(PendingSession(email)) < MaxSession

\* updateSession returns true: to the calling task, or to verify, which
\* hands the user to the callback of localAuthenticate
updateSessionReturn(p, t) ==
    IF t.op = "updateSession"
    THEN /\ Finish(p, "updateSession", t.email, "return", TRUE)
         /\ UNCHANGED <<session, cookies>>
    ELSE IF t.op = "POST /signup/password"
    THEN signUpLogin(p, t.op, t.email)
    ELSE loginUser(p, t.op, t.email)

\* findUsersByEmail
SessionFind(p, t) ==
    LET oldUserList == findUsersByEmail(t.email) IN
    IF 1 = Len(oldUserList)
    THEN /\ Goto(p, [t EXCEPT !.pc = "us_update"])
         /\ UNCHANGED <<session, cookies>>
    ELSE updateSessionReturn(p, t)

updateSession(p, email, isRestored) ==
    /\ task[p].pc = "idle"
    /\ SessionRoom(email)
    /\ SessionFind(p, [Idle EXCEPT !.op = "updateSession", !.email = email,
                                   !.isRestored = isRestored])
    /\ UNCHANGED <<account, clock>>

\* updateSession called by verify: its findUsersByEmail
updateSessionFind(p) ==
    /\ task[p].pc = "us_find"
    /\ SessionFind(p, task[p])
    /\ UNCHANGED <<account, clock>>

\* mutant: the counters are written from the row as the sign-up left it
updateSessionUpdateStale(p) ==
    /\ task[p].pc = "us_update"
    /\ LET Where(row) == row.email = task[p].email
           Set(row) == [row EXCEPT !.session_count = 1, !.session = <<clock>>,
                                   !.login_count = IF task[p].isRestored THEN 0 ELSE 1]
       IN  account' = UpdateMany(Where, Set)
    /\ updateSessionReturn(p, task[p])
    /\ UNCHANGED clock

\* prisma.$queryRawUnsafe(UPDATE_SESSION_ONLY | UPDATE_SESSION_LOGIN, email)
updateSessionUpdate(p) ==
    /\ task[p].pc = "us_update"
    /\ LET Where(row) == row.email = task[p].email IN
       account' = IF task[p].isRestored
                  THEN UpdateMany(Where, UPDATE_SESSION_ONLY)
                  ELSE UpdateMany(Where, UPDATE_SESSION_LOGIN)
    /\ updateSessionReturn(p, task[p])
    /\ UNCHANGED clock

----------------------------------------------------------------------------
(* POST /signin/password: Site.localAuthenticate, the local strategy and   *)
(* its verify function                                                     *)

\* mutant: an unknown email is reported as such
verifyUnknownEmail(email, password) ==
    LET isRestored == (RESTORED_LOGIN = password)
        succeed == IF ~isRestored THEN emailSignInResult(email, password) ELSE FALSE
    IN  [err |-> IF hasData(findUsersByEmail(email)) THEN "" ELSE "E-mail not registered",
         isRestored |-> isRestored, proceed |-> succeed \/ isRestored]

\* verify up to the call of updateSession: err is thrown by the sign-in,
\* proceed tells whether the session is updated and the user accepted
verify(email, password) ==
    LET isRestored == (RESTORED_LOGIN = password)
        succeed == IF ~isRestored THEN emailSignInResult(email, password) ELSE FALSE
    IN  [err |-> "", isRestored |-> isRestored, proceed |-> succeed \/ isRestored]

\* mutant: the password of the form goes to the strategy as it is
localAuthenticateBodyUnguarded(p, email, password, rememberMe) ==
    LET op == "POST /signin/password" IN
    /\ task[p].pc = "idle"
    /\ UNCHANGED <<account, clock>>
    /\ IF email = "" \/ password = ""
       THEN renderSignInError(p, op, email, ERROR_LOGIN_FAILED)
       ELSE LET v == verify(email, password) IN
            IF v.proceed
            THEN /\ SessionRoom(email)
                 /\ Goto(p, [Idle EXCEPT !.pc = "us_find", !.op = op, !.email = email,
                                         !.isRestored = v.isRestored,
                                         !.rememberMe = rememberMe])
                 /\ UNCHANGED <<session, cookies>>
            ELSE renderSignInError(p, op, email, ERROR_LOGIN_FAILED)

\* req.body carries emailAddr, password and whatever else the form sends;
\* rememberMe stands for a field that asks for a restore cookie
localAuthenticateBody(p, email, password, rememberMe) ==
    LET op == "POST /signin/password" IN
    /\ task[p].pc = "idle"
    /\ UNCHANGED <<account, clock>>
    /\ IF password # "" /\ RESTORED_LOGIN = password
       THEN renderSignInError(p, op, email, ERROR_LOGIN_FAILED)
       ELSE IF email = "" \/ password = ""
       THEN \* the strategy fails with 'Missing credentials'; the callback gets no user
            renderSignInError(p, op, email, ERROR_LOGIN_FAILED)
       ELSE LET v == verify(email, password) IN
            IF v.err # ""
            THEN renderSignInError(p, op, email, v.err)
            ELSE IF v.proceed
            THEN /\ SessionRoom(email)
                 /\ Goto(p, [Idle EXCEPT !.pc = "us_find", !.op = op, !.email = email,
                                         !.isRestored = v.isRestored,
                                         !.rememberMe = rememberMe])
                 /\ UNCHANGED <<session, cookies>>
            ELSE renderSignInError(p, op, email, ERROR_LOGIN_FAILED)

\* the sign-in form as the site's page sends it
localAuthenticate(p, email, password) == localAuthenticateBody(p, email, password, FALSE)

----------------------------------------------------------------------------
(* GET /signin: Site.tryRestoreLogin and the sign-in page; GET /signout    *)

\* req.isAuthenticated()
isAuthenticated == session.user # ""

Unauthorized == [status |-> 401, body |-> "Unauthorized"]

\* Site.renderSignIn without error: consumeErrorMessage and the page
renderSignIn(p, op) ==
    /\ session' = [session EXCEPT !.errorMessage = ""]
    /\ UNCHANGED cookies
    /\ Finish(p, op, "", "response",
              [status |-> 200, view |-> "login.ejs", errorMessage |-> session.errorMessage])

tryRestoreLogin(p) ==
    LET op == "GET /signin" IN
    /\ task[p].pc = "idle"
    /\ UNCHANGED <<account, clock>>
    /\ IF isAuthenticated
       THEN /\ Finish(p, op, session.user, "response", Redirect(USER_HOME))
            /\ UNCHANGED <<session, cookies>>
       ELSE IF cookies.loginType # "" /\ LOCAL_LOGIN # cookies.loginType
       THEN renderSignIn(p, op)
       ELSE IF cookies.user # ""
       THEN IF cookies.password = ""
            THEN \* the strategy fails with 'Missing credentials'
                 /\ Finish(p, op, cookies.user, "response", Unauthorized)
                 /\ UNCHANGED <<session, cookies>>
            ELSE LET v == verify(cookies.user, cookies.password) IN
                 IF v.proceed
                 THEN /\ SessionRoom(cookies.user)
                      /\ Goto(p, [Idle EXCEPT !.pc = "us_find", !.op = op,
                                              !.email = cookies.user,
                                              !.isRestored = v.isRestored,
                                              !.lastPage = cookies.lastPage])
                      /\ UNCHANGED <<session, cookies>>
                 ELSE /\ Finish(p, op, cookies.user, "response", Unauthorized)
                      /\ UNCHANGED <<session, cookies>>
       ELSE renderSignIn(p, op)

\* SESSION_COOKIE_POLICY: the session cookie lasts 8 hours, the restore
\* cookies 24; the browser comes back with the restore cookies only
sessionCookieExpires ==
    /\ isAuthenticated
    /\ session' = [user |-> "", errorMessage |-> ""]
    /\ UNCHANGED <<account, clock, task, last, cookies>>

\* mutant: the sign-out leaves the restore cookies as they are
signoutKeepCookies(p) ==
    /\ task[p].pc = "idle"
    /\ UNCHANGED cookies
    /\ session' = [user |-> "", errorMessage |-> ""]
    /\ Finish(p, "GET /signout", "", "response", Redirect("/"))
    /\ UNCHANGED <<account, clock>>

\* router.get('/signout')
signout(p) ==
    /\ task[p].pc = "idle"
    /\ cookies' = [signRestoreUser("", "") EXCEPT !.user = ""]
    /\ session' = [user |-> "", errorMessage |-> ""]
    /\ Finish(p, "GET /signout", "", "response", Redirect("/"))
    /\ UNCHANGED <<account, clock>>

----------------------------------------------------------------------------
(* The guards Site.securePage and Site.secureApi, and the routes of the    *)
(* user router behind them                                                 *)

USER_PROFILE == "/user/profile"

\* Site.securePage for a request of originalUrl: the cookie lastPage is set
\* before the test; next is whether the handler runs, response is sent if not
securePage(originalUrl) ==
    [next |-> isAuthenticated,
     cookies |-> [cookies EXCEPT !.lastPage = originalUrl],
     response |-> Redirect("/signin")]

\* mutant: the API guard answers like the page guard
secureApiRedirect ==
    [next |-> isAuthenticated,
     cookies |-> cookies,
     response |-> Redirect("/signin")]

\* Site.secureApi: no cookie, 401 with the empty JSON object
secureApi ==
    [next |-> isAuthenticated,
     cookies |-> cookies,
     response |-> [status |-> 401, json |-> <<>>]]

\* router.get('/dashboard')
getDashboard(p) ==
    LET guard == securePage(USER_HOME)
        email == session.user
        userList == findUsersByEmail(email)
        isOne == (1 = Len(userList))
    IN  /\ task[p].pc = "idle"
        /\ cookies' = guard.cookies
        /\ IF guard.next
           THEN Finish(p, "GET /user/dashboard", email, "response",
                       [status |-> 200, view |-> "dashboard.ejs",
                        id |-> IF isOne THEN userList[1].id ELSE NULL,
                        isVerified |-> IF isOne THEN userList[1].verified ELSE FALSE])
           ELSE Finish(p, "GET /user/dashboard", email, "response", guard.response)
        /\ UNCHANGED <<account, clock, session>>

\* router.post('/profile') with the fields email and nickname of the form
postProfile(p, email, nickname) ==
    LET guard == securePage(USER_PROFILE)
        Where(row) == row.email = email
        Set(row) == [row EXCEPT !.nickname = nickname]
    IN  /\ task[p].pc = "idle"
        /\ cookies' = guard.cookies
        /\ IF guard.next
           THEN /\ account' = IF email # "" /\ nickname # ""
                               THEN UpdateMany(Where, Set)
                               ELSE account
                /\ Finish(p, "POST /user/profile", email, "response", Redirect(USER_PROFILE))
           ELSE /\ UNCHANGED account
                /\ Finish(p, "POST /user/profile", email, "response", guard.response)
        /\ UNCHANGED <<clock, session>>

\* site.isSignInVerified(req): the account of the signed-in user is read and
\* its verified flag returned; false unless exactly one row has the email
isSignInVerified ==
    LET userList == findUsersByEmail(session.user) IN
    IF 1 = Len(userList) THEN userList[1].verified ELSE FALSE

Forbidden == [status |-> 403, json |-> [message |-> "Not verified"]]

\* mutant: the password is blanked, and the field kept
WithoutPasswordHash(row) == [row EXCEPT !.password = ""]

\* a row of the table without its password
WithoutPassword(row) == [f \in DOMAIN row \ {"password"} |-> row[f]]

\* the rows of a table with id below or equal to n, by id ascending
RECURSIVE OrderById(_, _)
OrderById(rows, n) ==
    IF n = 0 THEN <<>>
    ELSE OrderById(rows, n - 1) \o SelectSeq(rows, LAMBDA row : row.id = n)

\* prisma.account.findMany({ orderBy: { id: 'asc' } }) and the delete of
\* row.password in each row
getUserListResult ==
    LET data == OrderById(account, Len(account)) IN
    [i \in DOMAIN data |-> WithoutPassword(data[i])]

\* Account.getUserList
getUserList(p) ==
    /\ task[p].pc = "idle"
    /\ Finish(p, "getUserList", "", "return", getUserListResult)
    /\ UNCHANGED <<account, clock, session, cookies>>

\* router.get('/list'): the guard and isSignInVerified
getList(p) ==
    LET guard == secureApi
        op == "GET /user/list"
    IN  /\ task[p].pc = "idle"
        /\ IF ~guard.next
           THEN Finish(p, op, session.user, "response", guard.response)
           ELSE IF ~isSignInVerified
           THEN Finish(p, op, session.user, "response", Forbidden)
           ELSE Goto(p, [Idle EXCEPT !.pc = "ul_find", !.op = op, !.email = session.user])
        /\ UNCHANGED <<account, clock, session, cookies>>

\* router.get('/list'): account.getUserList and res.json
getListFind(p) ==
    /\ task[p].pc = "ul_find"
    /\ Finish(p, task[p].op, task[p].email, "response",
              [status |-> 200, json |-> getUserListResult])
    /\ UNCHANGED <<account, clock, session, cookies>>

\* mutant: the statistics go to every signed-in user
getStatisticsAnyUser(p) ==
    LET guard == secureApi
        op == "GET /user/statistics"
    IN  /\ task[p].pc = "idle"
        /\ IF ~guard.next
           THEN Finish(p, op, session.user, "response", guard.response)
           ELSE Goto(p, [Idle EXCEPT !.pc = "st_total", !.op = op, !.email = session.user])
        /\ UNCHANGED <<account, clock, session, cookies>>

\* router.get('/statistics'): the guard and isSignInVerified
getStatistics(p) ==
    LET guard == secureApi
        op == "GET /user/statistics"
    IN  /\ task[p].pc = "idle"
        /\ IF ~guard.next
           THEN Finish(p, op, session.user, "response", guard.response)
           ELSE IF ~isSignInVerified
           THEN Finish(p, op, session.user, "response", Forbidden)
           ELSE Goto(p, [Idle EXCEPT !.pc = "st_total", !.op = op, !.email = session.user])
        /\ UNCHANGED <<account, clock, session, cookies>>

----------------------------------------------------------------------------
(* Account.getUserStatistics                                               *)
(* An instant is a number of hours; instant 0 is midnight, in the time     *)
(* zone of the server, of FIRST_DATE November.                             *)

TIME_ONE_HOUR == 1
TIME_ONE_DAY == 24 * TIME_ONE_HOUR

\* the first day of the calendar and the month of its days
FIRST_DATE == 9
MONTH_INDEX == 10

\* hours that the clock of the server's time zone is ahead of UTC
TimezoneOffset == 8

\* Date.prototype.getMonth and getDate, in the time zone of the server
getMonth(date) == MONTH_INDEX
getDate(date) == FIRST_DATE + (date \div TIME_ONE_DAY)

\* the instant of midnight of a day of the month, in the time zone of the
\* server and in UTC
LocalMidnight(month, day) == (day - FIRST_DATE) * TIME_ONE_DAY
UtcMidnight(month, day) == LocalMidnight(month, day) + TimezoneOffset * TIME_ONE_HOUR

\* new Date(year + '-' + month + '-' + day): a string of the date-only form
\* YYYY-MM-DD, with two digits for month and day, is read as UTC; any other
\* string goes to the fallback parser, which reads it as local time
ParseDate(month, day) ==
    IF month >= 10 /\ day >= 10
    THEN UtcMidnight(month, day)
    ELSE LocalMidnight(month, day)

TimeUtil_addDays(date, daysToAdd) == date + (daysToAdd * TIME_ONE_DAY)

TimeUtil_getDayStart(date) == ParseDate(1 + getMonth(date), getDate(date))

\* prisma.account.count({ where: { session: { gte, lte } } })
CountSession(gte, lte) ==
    Cardinality({i \in DOMAIN account :
                    /\ account[i].session # NULL
                    /\ account[i].session[1] >= gte
                    /\ account[i].session[1] <= lte})

\* the quotient of two numbers, as a fraction
Quotient(n, d) == [num |-> n, den |-> d]

\* Account.getUserStatistics is called
getUserStatistics(p) ==
    /\ task[p].pc = "idle"
    /\ Goto(p, [Idle EXCEPT !.pc = "st_total", !.op = "getUserStatistics"])
    /\ UNCHANGED <<account, clock, session, cookies>>

\* prisma.account.count()
countTotalSignedUp(p) ==
    /\ task[p].pc = "st_total"
    /\ Goto(p, [task[p] EXCEPT !.pc = "st_today_now", !.totalCount = Len(account)])
    /\ UNCHANGED <<account, clock, session, cookies>>

\* DbAccess.getDbNow of countTodayActive
countTodayActiveNow(p) ==
    /\ task[p].pc = "st_today_now"
    /\ Goto(p, [task[p] EXCEPT !.pc = "st_today", !.now = clock])
    /\ UNCHANGED <<account, clock, session, cookies>>

\* the count of countTodayActive
countTodayActive(p) ==
    /\ task[p].pc = "st_today"
    /\ LET now == task[p].now
           today == TimeUtil_getDayStart(now)
       IN  Goto(p, [task[p] EXCEPT !.pc = "st_week_now",
                                   !.todayActive = CountSession(today, now)])
    /\ UNCHANGED <<account, clock, session, cookies>>

\* DbAccess.getDbNow of countWeeklyAverage
countWeeklyAverageNow(p) ==
    /\ task[p].pc = "st_week_now"
    /\ Goto(p, [task[p] EXCEPT !.pc = "st_week", !.now = clock])
    /\ UNCHANGED <<account, clock, session, cookies>>

\* the count of countWeeklyAverage, its division and allStatistics
countWeeklyAverage(p) ==
    /\ task[p].pc = "st_week"
    /\ LET timeEnd == task[p].now
           timeStart == TimeUtil_addDays(timeEnd, -7)
           weekCount == CountSession(timeStart, timeEnd)
           allStatistics == [totalCount |-> task[p].totalCount,
                             todayActive |-> task[p].todayActive,
                             weeklyAverage |-> Quotient(weekCount, 7)]
       IN  IF task[p].op = "getUserStatistics"
           THEN Finish(p, task[p].op, task[p].email, "return", allStatistics)
           ELSE Finish(p, task[p].op, task[p].email, "response",
                       [status |-> 200, json |-> allStatistics])
    /\ UNCHANGED <<account, clock, session, cookies>>

----------------------------------------------------------------------------
(* Calls of Account.makeHash and Account.checkHash *)

\* a task calls makeHash; s names the salt that randomBytes returns
makeHashCall(p, s) ==
    /\ task[p].pc = "mh_call"
    /\ Goto(p, [task[p] EXCEPT !.pc = "mh_again", !.salt = s,
                                !.hash = makeHash(task[p].password, s)])
    /\ UNCHANGED <<account, clock, session, cookies>>

\* the task calls makeHash on the same string once more
makeHashAgain(p, s) ==
    /\ task[p].pc = "mh_again"
    /\ Finish(p, "makeHash", task[p].password, "return",
              [first |-> task[p].hash, second |-> makeHash(task[p].password, s)])
    /\ UNCHANGED <<account, clock, session, cookies>>

\* a task calls checkHash with a raw string and a stored record
checkHashCall(p) ==
    /\ task[p].pc = "ch_call"
    /\ IF checkHashThrows(task[p].password, task[p].hash)
       THEN Finish(p, "checkHash", task[p].password, "throw", "TypeError")
       ELSE Finish(p, "checkHash", task[p].password, "return",
                   checkHash(task[p].password, task[p].hash))
    /\ UNCHANGED <<account, clock, session, cookies>>

----------------------------------------------------------------------------
(* PasswordChecker: a password is the sequence of its characters *)

\* the characters of the candidates that the four patterns match
RX_LOWER == {"a", "e", "s", "t"}
RX_UPPER == {"A", "W"}
RX_DIGIT == {"1", "3", "4", "5", "6", "7", "8"}
RX_SPECIAL == {"!", "+", "-"}

\* RegExp.prototype.test for a pattern that is one character class
Test(class, passwordInput) == \E i \in DOMAIN passwordInput : passwordInput[i] \in class

PASSWORD_NO_LOWER_CHAR == 1
PASSWORD_NO_UPPER_CHAR == 2
PASSWORD_NO_DIGIT_CHAR == 3
PASSWORD_NO_SYMBOL_CHAR == 4
PASSWORD_TOO_SHORT == 5
PASSWORD_CONFIRM_NOT_SAME == 6

\* the constructor: options.strongLength || 8, where 0 stands for no option
strongLength(options) == IF options.strongLength = 0 THEN 8 ELSE options.strongLength

hasLowerCharacter(passwordInput) == Test(RX_LOWER, passwordInput)
hasUpperCharacter(passwordInput) == Test(RX_UPPER, passwordInput)
hasDigitCharacter(passwordInput) == Test(RX_DIGIT, passwordInput)
hasSpecialCharacter(passwordInput) == Test(RX_SPECIAL, passwordInput)
hasStrongLength(options, passwordInput) == Len(passwordInput) >= strongLength(options)

getSampleMessage(options, invalidNote) ==
    CASE invalidNote = PASSWORD_NO_LOWER_CHAR ->
           <<"Password must contain at least one lower character">>
      [] invalidNote = PASSWORD_NO_UPPER_CHAR ->
           <<"Password must contain at least one upper character">>
      [] invalidNote = PASSWORD_NO_DIGIT_CHAR ->
           <<"Password must contain at least one digit character">>
      [] invalidNote = PASSWORD_NO_SYMBOL_CHAR ->
           <<"Password must contain at least one special character">>
      [] invalidNote = PASSWORD_TOO_SHORT ->
           <<"Password must contain at least ", strongLength(options), " characters">>
      [] invalidNote = PASSWORD_CONFIRM_NOT_SAME ->
           <<"Password confirm must be same as the first password input">>
      [] OTHER -> <<"unknown password error">>

\* an argument that the caller left out, and the test if (value) of a string
Undefined == <<"undefined">>
Truthy(value) == value # Undefined /\ value # <<>>

\* invalidNotes after collectInvalidNotes(invalidNotes, isValid, noteIn)
collectInvalidNotes(options, invalidNotes, isValid, noteIn) ==
    IF ~isValid
    THEN IF options.enableSampleMessage
         THEN Append(invalidNotes, [note |-> noteIn,
                                    message |-> getSampleMessage(options, noteIn)])
         ELSE Append(invalidNotes, [note |-> noteIn])
    ELSE invalidNotes

\* mutant: the rules after the first one that fails are skipped
checkPasswordEarlyExit(options, passwordInput, passwordConfirm) ==
    LET n1 == collectInvalidNotes(options, <<>>, hasLowerCharacter(passwordInput),
                                  PASSWORD_NO_LOWER_CHAR)
        n2 == IF n1 # <<>> THEN n1
              ELSE collectInvalidNotes(options, n1, hasUpperCharacter(passwordInput),
                                       PASSWORD_NO_UPPER_CHAR)
        n3 == IF n2 # <<>> THEN n2
              ELSE collectInvalidNotes(options, n2, hasDigitCharacter(passwordInput),
                                       PASSWORD_NO_DIGIT_CHAR)
        n4 == IF n3 # <<>> THEN n3
              ELSE collectInvalidNotes(options, n3, hasSpecialCharacter(passwordInput),
                                       PASSWORD_NO_SYMBOL_CHAR)
        n5 == IF n4 # <<>> THEN n4
              ELSE collectInvalidNotes(options, n4, hasStrongLength(options, passwordInput),
                                       PASSWORD_TOO_SHORT)
        invalidNotes ==
              IF Truthy(passwordConfirm) /\ 0 = Len(n5)
              THEN collectInvalidNotes(options, n5, passwordConfirm = passwordInput,
                                       PASSWORD_CONFIRM_NOT_SAME)
              ELSE n5
    IN  [input |-> passwordInput, isValid |-> (0 = Len(invalidNotes)),
         invalidNotes |-> invalidNotes]

\* PasswordChecker.checkPassword
checkPassword(options, passwordInput, passwordConfirm) ==
    LET n1 == collectInvalidNotes(options, <<>>, hasLowerCharacter(passwordInput),
                                  PASSWORD_NO_LOWER_CHAR)
        n2 == collectInvalidNotes(options, n1, hasUpperCharacter(passwordInput),
                                  PASSWORD_NO_UPPER_CHAR)
        n3 == collectInvalidNotes(options, n2, hasDigitCharacter(passwordInput),
                                  PASSWORD_NO_DIGIT_CHAR)
        n4 == collectInvalidNotes(options, n3, hasSpecialCharacter(passwordInput),
                                  PASSWORD_NO_SYMBOL_CHAR)
        n5 == collectInvalidNotes(options, n4, hasStrongLength(options, passwordInput),
                                  PASSWORD_TOO_SHORT)
        invalidNotes ==
              IF Truthy(passwordConfirm) /\ 0 = Len(n5)
              THEN collectInvalidNotes(options, n5, passwordConfirm = passwordInput,
                                       PASSWORD_CONFIRM_NOT_SAME)
              ELSE n5
    IN  [input |-> passwordInput, isValid |-> (0 = Len(invalidNotes)),
         invalidNotes |-> invalidNotes]

\* a task that holds a checker made with options and the arguments of a
\* call runs checkPassword
checkPasswordCall(p) ==
    /\ task[p].pc = "cp_call"
    /\ Finish(p, "checkPassword", "", "return",
              checkPassword(task[p].options, task[p].passwordInput, task[p].passwordConfirm))
    /\ UNCHANGED <<account, clock, session, cookies>>

----------------------------------------------------------------------------
(* POST /signup/password *)

ERROR_INVALID_EMAIL == "Invalid E-mail"
ERROR_NO_EMAIL == "Please input E-mail"
ERROR_NO_PASSWORD == "Please input Password"

\* the characters of the emails that \w matches
RX_WORD == {"a", "b", "c", "d", "m", "o"}

\* the characters of a string of a form
CharsOf(str) ==
    CASE str = "a@b.com" -> <<"a", "@", "b", ".", "c", "o", "m">>
      [] str = "c@d.com" -> <<"c", "@", "d", ".", "c", "o", "m">>
      [] str = "a@b" -> <<"a", "@", "b">>
      [] str = "@b.com" -> <<"@", "b", ".", "c", "o", "m">>
      [] str = "a@b.comm" -> <<"a", "@", "b", ".", "c", "o", "m", "m">>
      [] str = "Aa1!aaaa" -> <<"A", "a", "1", "!", "a", "a", "a", "a">>
      [] str = "aW6+test" -> <<"a", "W", "6", "+", "t", "e", "s", "t">>
      [] str = "aW5+tes" -> <<"a", "W", "5", "+", "t", "e", "s">>
      [] str = "x" -> <<"x">>
      [] OTHER -> <<>>

\* \w+([\.-]?\w+)* on a whole string: words joined by single dots or dashes
RX_WORDS(chars) ==
    /\ chars # <<>>
    /\ chars[1] \in RX_WORD
    /\ chars[Len(chars)] \in RX_WORD
    /\ \A i \in DOMAIN chars : chars[i] \in RX_WORD \cup {".", "-"}
    /\ \A i \in 1..(Len(chars) - 1) : chars[i] \in RX_WORD \/ chars[i + 1] \in RX_WORD

\* RX_EMAIL.test: words, an @, words, and at the end a dot with one to
\* three characters of \w
RX_EMAIL(chars) ==
    \E at \in DOMAIN chars, dot \in DOMAIN chars :
        /\ chars[at] = "@"
        /\ chars[dot] = "."
        /\ at < dot
        /\ RX_WORDS(SubSeq(chars, 1, at - 1))
        /\ RX_WORDS(SubSeq(chars, at + 1, dot - 1))
        /\ Len(chars) - dot \in 1..3
        /\ \A i \in (dot + 1)..Len(chars) : chars[i] \in RX_WORD

\* email.split('@')[0]
RECURSIVE NicknameOf(_)
NicknameOf(chars) ==
    IF chars = <<>> \/ Head(chars) = "@" THEN "" ELSE Head(chars) \o NicknameOf(Tail(chars))

\* the text of a message of getSampleMessage
MessageText(message) ==
    IF Len(message) = 3
    THEN message[1] \o ToString(message[2]) \o message[3]
    ELSE message[1]

\* Site.concatMessage
RECURSIVE concatMessage(_)
concatMessage(messageArray) ==
    IF messageArray = <<>> THEN ""
    ELSE IF Len(messageArray) = 1 THEN MessageText(messageArray[1].message)
    ELSE MessageText(messageArray[1].message) \o "\\n" \o concatMessage(Tail(messageArray))

\* the options of the checker that the site makes
SiteCheckerOptions == [strongLength |-> 0, enableSampleMessage |-> TRUE]

\* Site.renderSignUp with an error: the message goes to the session and the
\* browser is sent back to the sign-up page
renderSignUpError(p, op, email, message) ==
    /\ session' = [session EXCEPT !.errorMessage = message]
    /\ UNCHANGED cookies
    /\ Finish(p, op, email, "response", Redirect("/signup"))

\* mutant: the password goes to the store without the policy check
postSignUpNoPolicy(p, email, password) ==
    LET op == "POST /signup/password" IN
    /\ task[p].pc = "idle"
    /\ UNCHANGED <<account, clock>>
    /\ IF email = ""
       THEN renderSignUpError(p, op, email, ERROR_NO_EMAIL)
       ELSE IF ~RX_EMAIL(CharsOf(email))
       THEN renderSignUpError(p, op, email, ERROR_INVALID_EMAIL)
       ELSE IF password = ""
       THEN renderSignUpError(p, op, email, ERROR_NO_PASSWORD)
       ELSE IF hasData(findUsersByEmail(email))
       THEN renderSignUpError(p, op, email, "E-mail was already used")
       ELSE /\ Len(account) + Cardinality(PendingInsert) < MaxAccounts
            /\ SignUpFind(p, [Idle EXCEPT !.op = op, !.email = email,
                                          !.password = password,
                                          !.nickname = NicknameOf(CharsOf(email)),
                                          !.verified = FALSE])
            /\ UNCHANGED <<session, cookies>>

\* the handler up to the first answer of the database in emailSignUp
postSignUp(p, email, password) ==
    LET op == "POST /signup/password" IN
    /\ task[p].pc = "idle"
    /\ UNCHANGED <<account, clock>>
    /\ IF email = ""
       THEN renderSignUpError(p, op, email, ERROR_NO_EMAIL)
       ELSE IF ~RX_EMAIL(CharsOf(email))
       THEN renderSignUpError(p, op, email, ERROR_INVALID_EMAIL)
       ELSE IF password = ""
       THEN renderSignUpError(p, op, email, ERROR_NO_PASSWORD)
       ELSE LET result == checkPassword(SiteCheckerOptions, CharsOf(password), Undefined) IN
            IF ~result.isValid
            THEN renderSignUpError(p, op, email, concatMessage(result.invalidNotes))
            ELSE IF hasData(findUsersByEmail(email))
            THEN renderSignUpError(p, op, email, "E-mail was already used")
            ELSE /\ Len(account) + Cardinality(PendingInsert) < MaxAccounts
                 /\ SignUpFind(p, [Idle EXCEPT !.op = op, !.email = email,
                                               !.password = password,
                                               !.nickname = NicknameOf(CharsOf(email)),
                                               !.verified = FALSE])
                 /\ UNCHANGED <<session, cookies>>

\* the sign-in after the sign-up: verify of the strategy 'db-auth' calls
\* emailSignIn; without a user passport answers 401
postSignUpSignIn(p) ==
    /\ task[p].pc = "sp_signin"
    /\ UNCHANGED <<account, clock>>
    /\ LET t == task[p]
           v == verify(t.email, t.password)
       IN  IF v.proceed
           THEN /\ SessionRoom(t.email)
                /\ Goto(p, [t EXCEPT !.pc = "us_find", !.isRestored = v.isRestored])
                /\ UNCHANGED <<session, cookies>>
           ELSE /\ Finish(p, t.op, t.email, "response", Unauthorized)
                /\ UNCHANGED <<session, cookies>>

----------------------------------------------------------------------------
(* Account.updateVerifyToken *)

\* findUsersByEmail and crypto.randomFillSync; tok names the value drawn
updateVerifyToken(p, email) ==
    /\ task[p].pc = "idle"
    /\ LET oldUserList == findUsersByEmail(email) IN
       IF 1 = Len(oldUserList)
       THEN \E tok \in Tokens :
              Goto(p, [Idle EXCEPT !.pc = "vt_update", !.op = "updateVerifyToken",
                                   !.email = email, !.verifyToken = tok])
       ELSE Finish(p, "updateVerifyToken", email, "return", "")
    /\ UNCHANGED <<account, clock, session, cookies>>

\* mutant: the token is returned unless exactly one row was updated
updateVerifyTokenInverted(p) ==
    /\ task[p].pc = "vt_update"
    /\ LET Where(row) == row.email = task[p].email
           Set(row) == [row EXCEPT !.verify_token = task[p].verifyToken]
           updateCount == getUpdateCount(UpdateResult(Where))
       IN  /\ account' = UpdateMany(Where, Set)
           /\ Finish(p, "updateVerifyToken", task[p].email, "return",
                     IF 1 = updateCount THEN "" ELSE task[p].verifyToken)
    /\ UNCHANGED <<clock, session, cookies>>

\* prisma.account.updateMany({ where: { email }, data: { verify_token } })
updateVerifyTokenUpdate(p) ==
    /\ task[p].pc = "vt_update"
    /\ LET Where(row) == row.email = task[p].email
           Set(row) == [row EXCEPT !.verify_token = task[p].verifyToken]
           updateCount == getUpdateCount(UpdateResult(Where))
       IN  /\ account' = UpdateMany(Where, Set)
           /\ Finish(p, "updateVerifyToken", task[p].email, "return",
                     IF 1 = updateCount THEN task[p].verifyToken ELSE "")
    /\ UNCHANGED <<clock, session, cookies>>

----------------------------------------------------------------------------
(* Account.sendVerificationEmail and EmailSender *)

\* EmailSender.sendVerificationEmail: the message goes to sgMail.send, whose
\* promise is left to settle; sendVerificationEmail returns to its caller
sendMail(p, t, verifyCode) ==
    /\ task' = [task EXCEPT ![p] = [t EXCEPT !.pc = "mail_sent", !.verifyToken = verifyCode]]
    /\ last' = [op |-> "sendVerificationEmail", email |-> t.email, kind |-> "return",
                val |-> "undefined"]

\* updateVerifyToken up to its findUsersByEmail; tok names the value drawn
sendVerificationEmail(p, email) ==
    /\ task[p].pc = "idle"
    /\ LET oldUserList == findUsersByEmail(email) IN
       IF 1 = Len(oldUserList)
       THEN \E tok \in Tokens :
              Goto(p, [Idle EXCEPT !.pc = "sv_update", !.op = "sendVerificationEmail",
                                   !.email = email, !.verifyToken = tok])
       ELSE sendMail(p, [Idle EXCEPT !.op = "sendVerificationEmail", !.email = email], "")
    /\ UNCHANGED <<account, clock, session, cookies>>

\* the updateMany of updateVerifyToken, its return and the mail
sendVerificationEmailUpdate(p) ==
    /\ task[p].pc = "sv_update"
    /\ LET Where(row) == row.email = task[p].email
           Set(row) == [row EXCEPT !.verify_token = task[p].verifyToken]
           updateCount == getUpdateCount(UpdateResult(Where))
       IN  /\ account' = UpdateMany(Where, Set)
           /\ sendMail(p, task[p], IF 1 = updateCount THEN task[p].verifyToken ELSE "")
    /\ UNCHANGED <<clock, session, cookies>>

\* mutant: a mail that could not be sent takes its token back
sgMailSettleRollback(p, sent) ==
    /\ task[p].pc = "mail_sent"
    /\ LET Where(row) == row.email = task[p].email
           Set(row) == [row EXCEPT !.verify_token = "NULL"]
       IN  account' = IF sent THEN account ELSE UpdateMany(Where, Set)
    /\ Finish(p, "sgMail.send", task[p].email, IF sent THEN "return" ELSE "log",
              task[p].verifyToken)
    /\ UNCHANGED <<clock, session, cookies>>

\* the promise of sgMail.send settles: onEmailSent does nothing,
\* onEmailError writes the error to the console
sgMailSettle(p, sent) ==
    /\ task[p].pc = "mail_sent"
    /\ Finish(p, "sgMail.send", task[p].email, IF sent THEN "return" ELSE "log",
              task[p].verifyToken)
    /\ UNCHANGED <<account, clock, session, cookies>>

----------------------------------------------------------------------------
(* Account.verifyEmail *)

\* mutant: the rows are looked up by email only
verifyEmailAnyToken(p, email, verifyToken) ==
    /\ task[p].pc = "idle"
    /\ LET findResult == SelectSeq(account, LAMBDA row : row.email = email)
       IN  IF hasData(findResult)
           THEN Goto(p, [Idle EXCEPT !.pc = "ve_update", !.op = "verifyEmail",
                                     !.email = email, !.verifyToken = verifyToken])
           ELSE Finish(p, "verifyEmail", email, "return", FALSE)
    /\ UNCHANGED <<account, clock, session, cookies>>

\* prisma.account.findMany({ where: { email, verify_token } })
verifyEmail(p, email, verifyToken) ==
    /\ task[p].pc = "idle"
    /\ LET findResult ==
              SelectSeq(account, LAMBDA row : row.email = email
                                              /\ row.verify_token = verifyToken)
       IN  IF hasData(findResult)
           THEN Goto(p, [Idle EXCEPT !.pc = "ve_update", !.op = "verifyEmail",
                                     !.email = email, !.verifyToken = verifyToken])
           ELSE Finish(p, "verifyEmail", email, "return", FALSE)
    /\ UNCHANGED <<account, clock, session, cookies>>

\* prisma.account.updateMany({ where: { email }, data: { verified: true } })
verifyEmailUpdate(p) ==
    /\ task[p].pc = "ve_update"
    /\ LET Where(row) == row.email = task[p].email
           Set(row) == [row EXCEPT !.verified = TRUE]
           updateCount == getUpdateCount(UpdateResult(Where))
       IN  /\ account' = UpdateMany(Where, Set)
           /\ Finish(p, "verifyEmail", task[p].email, "return", 1 = updateCount)
    /\ UNCHANGED <<clock, session, cookies>>

----------------------------------------------------------------------------------------------------------------------------------------
(* Request tasks call the account store concurrently.  Spec and SpecSignIn *)
(* start from the empty table; each other specification lets the tasks run *)
(* one group of operations on a table of accounts that have signed up.     *)

\* sign-up
SignUpStep(p) ==
    \/ \E email \in Emails, password \in RawPasswords : emailSignUp(p, email, password, "a")
    \/ \E email \in Emails : auth0SignIn(p, email, "b")
    \/ commonSignUpFind(p)
    \/ commonSignUpNow(p)
    \/ commonSignUpCreate(p)
    \/ auth0SignInRefind(p)

Next == \E p \in Procs : SignUpStep(p)

Spec == Init /\ [][Next]_vars

\* sign-up and sign-in
NextSignIn ==
    \E p \in Procs :
        \/ SignUpStep(p)
        \/ \E email \in Emails, password \in RawPasswords : emailSignIn(p, email, password)

SpecSignIn == Init /\ [][NextSignIn]_vars

\* session counters next to sign-up without password
NextCounters ==
    \E p \in Procs :
        \/ \E email \in Emails : emailSignUp(p, email, "", "a")
        \/ commonSignUpNow(p)
        \/ commonSignUpCreate(p)
        \/ \E email \in Emails, isRestored \in BOOLEAN : updateSession(p, email, isRestored)
        \/ updateSessionUpdate(p)

SpecCounters == Init /\ [][NextCounters]_vars

\* session bookkeeping and the database clock
InitSession == InitSignedUp(EmailLists, {""})

NextSession ==
    \/ Tick
    \/ \E p \in Procs :
        \/ \E email \in Emails, isRestored \in BOOLEAN : updateSession(p, email, isRestored)
        \/ updateSessionUpdate(p)

SpecSession == InitSession /\ [][NextSession]_vars

\* e-mail verification
InitVerify == InitSignedUp(EmailLists, {""})

NextVerify ==
    \E p \in Procs :
        \/ \E email \in Emails : updateVerifyToken(p, email)
        \/ updateVerifyTokenUpdate(p)
        \/ \E email \in Emails, verifyToken \in Tokens : verifyEmail(p, email, verifyToken)
        \/ verifyEmailUpdate(p)

SpecVerify == InitVerify /\ [][NextVerify]_vars

\* verification e-mails of one user next to e-mail verification
NextMail ==
    \E p \in Procs :
        \/ sendVerificationEmail(p, "a@b.com")
        \/ sendVerificationEmailUpdate(p)
        \/ \E sent \in BOOLEAN : sgMailSettle(p, sent)
        \/ \E verifyToken \in Tokens : verifyEmail(p, "a@b.com", verifyToken)
        \/ verifyEmailUpdate(p)

SpecMail == InitVerify /\ [][NextMail]_vars

\* password change
InitPassword == InitSignedUp(EmailListsOrEmpty, RawPasswords \cup {""})

NextPassword ==
    \E p \in Procs :
        \/ \E email \in EmailsOrEmpty, oldPassword \in RawPasswords, newPassword \in RawPasswords :
              changeUserPassword(p, email, oldPassword, newPassword)
        \/ changeUserPasswordUpdate(p)

SpecPassword == InitPassword /\ [][NextPassword]_vars

\* no operation is in progress
Quiet == \A q \in Procs : task[q].pc = "idle"

\* a sequence of the operations of the store, each started when the one
\* before has returned, on the account of one email, while the database
\* clock advances
NextStore ==
    \/ Tick
    \/ \E p \in Procs :
        /\ task[p].pc = "idle" => Quiet
        /\ \/ emailSignUp(p, "a@b.com", "Aa1!aaaa", "a")
           \/ commonSignUpNow(p)
           \/ commonSignUpCreate(p)
           \/ emailSignIn(p, "a@b.com", "Aa1!aaaa")
           \/ updateSession(p, "a@b.com", FALSE)
           \/ updateSessionUpdate(p)
           \/ changeUserPassword(p, "a@b.com", "Aa1!aaaa", "aW6+test")
           \/ changeUserPasswordUpdate(p)
           \/ changeUserNickname(p, "a@b.com", "b")
           \/ updateVerifyToken(p, "a@b.com")
           \/ updateVerifyTokenUpdate(p)
           \/ verifyEmail(p, "a@b.com", "t1")
           \/ verifyEmailUpdate(p)

SpecStore == Init /\ [][NextStore]_vars

----------------------------------------------------------------------------
(* POST /user/reset-password *)

\* parseInt of the text of a value: the number written by the leading
\* decimal digits, NaN when the text starts with none (signs, blanks and
\* other radixes are not among the inputs)
DigitChars == <<"0", "1", "2", "3", "4", "5", "6", "7", "8", "9">>
IsDigit(c) == \E k \in DOMAIN DigitChars : DigitChars[k] = c
DigitValue(c) == (CHOOSE k \in DOMAIN DigitChars : DigitChars[k] = c) - 1
NaN == [isNaN |-> TRUE, val |-> 0]

RECURSIVE ParseDigits(_, _)
ParseDigits(chars, acc) ==
    IF chars = <<>> \/ ~IsDigit(Head(chars)) THEN acc
    ELSE ParseDigits(Tail(chars), 10 * acc + DigitValue(Head(chars)))

parseInt(chars) ==
    IF chars = <<>> \/ ~IsDigit(Head(chars)) THEN NaN
    ELSE [isNaN |-> FALSE, val |-> ParseDigits(chars, 0)]

\* !userId
Falsy(number) == number.isNaN \/ number.val = 0

\* Account.findUserById: the first row with the id, or none
findUserById(id) == SelectSeq(account, LAMBDA row : row.id = id)

\* the handler up to the call of findUsersByEmail in changeUserPassword;
\* req.user.email is kept as the email of the task
postResetPassword(p, userId, oldPassword, newPassword) ==
    LET parsed == parseInt(userId) IN
    /\ task[p].pc = "idle"
    /\ UNCHANGED <<account, clock, session, cookies>>
    /\ IF ~isAuthenticated
       THEN Finish(p, RESET_PASSWORD, "", "response", NotSignedIn)
       ELSE IF Falsy(parsed)
       THEN Finish(p, RESET_PASSWORD, session.user, "response", NotSignedIn)
       ELSE LET found == findUserById(parsed.val) IN
            IF hasData(found) /\ found[1].email = session.user
            THEN LET result == checkPassword(SiteCheckerOptions, CharsOf(newPassword),
                                             Undefined)
                 IN  IF ~result.isValid
                     THEN Finish(p, RESET_PASSWORD, session.user, "response",
                                 ResetFailed(concatMessage(result.invalidNotes)))
                     ELSE IF oldPassword = newPassword
                     THEN Finish(p, RESET_PASSWORD, session.user, "response",
                                 ResetFailed("New Password is the same as Old Password"))
                     ELSE Goto(p, [Idle EXCEPT !.pc = "rp_change", !.op = RESET_PASSWORD,
                                               !.email = found[1].email,
                                               !.password = newPassword,
                                               !.oldPassword = oldPassword])
            ELSE Finish(p, RESET_PASSWORD, session.user, "response",
                        ResetFailed("Failed to update password"))

\* changeUserPassword from findUsersByEmail to the call of updateMany; what
\* it throws is the message of the answer
postResetPasswordChange(p) ==
    /\ task[p].pc = "rp_change"
    /\ UNCHANGED <<account, clock, session, cookies>>
    /\ LET t == task[p]
           oldUserList == findUsersByEmail(t.email)
       IN  IF hashTestThrows(oldUserList, t.oldPassword)
           THEN Finish(p, RESET_PASSWORD, t.email, "response", ResetFailed("TypeError"))
           ELSE IF ~isOldHashValid(oldUserList, t.oldPassword)
           THEN Finish(p, RESET_PASSWORD, t.email, "response",
                       ResetFailed("Old Password not match"))
           ELSE LET row == oldUserList[1] IN
                IF row.id # 0 /\ row.email # ""
                THEN \E s \in Salts :
                       Goto(p, [t EXCEPT !.pc = "cp_update", !.id = row.id,
                                         !.email = row.email,
                                         !.hash = makeHash(t.password, s)])
                ELSE Finish(p, RESET_PASSWORD, t.email, "response",
                            resetPasswordResponse(getUpdateCount(NULL)))

\* the userId of a request: the ids of rows, of no row, zero, text with and
\* without a leading number, nothing
UserIds == {<<"1">>, <<"2">>, <<"3">>, <<"0">>, <<"1", "a">>, <<"a", "1">>, <<>>}
ResetPasswords == {"aW6+test", "aW5+tes"}

\* two accounts signed up with the same password
InitReset == InitSignedUp({<<"a@b.com", "c@d.com">>}, {"Aa1!aaaa"})

\* a browser signs in and asks for password changes
NextReset ==
    \E p \in Procs :
        \/ \E password \in RawPasswords : localAuthenticate(p, "a@b.com", password)
        \/ updateSessionFind(p)
        \/ updateSessionUpdate(p)
        \/ \E userId \in UserIds, oldPassword \in RawPasswords, newPassword \in ResetPasswords :
              postResetPassword(p, userId, oldPassword, newPassword)
        \/ postResetPasswordChange(p)
        \/ changeUserPasswordUpdate(p)

SpecReset == InitReset /\ [][NextReset]_vars

\* the list of the accounts read while verification tokens are issued and
\* consumed
NextListTokens ==
    \E p \in Procs :
        \/ \E email \in Emails : updateVerifyToken(p, email)
        \/ updateVerifyTokenUpdate(p)
        \/ \E email \in Emails, verifyToken \in Tokens : verifyEmail(p, email, verifyToken)
        \/ verifyEmailUpdate(p)
        \/ getUserList(p)

SpecListTokens == InitVerify /\ [][NextListTokens]_vars

\* the forms of the site filled with a password or with the value of the
\* restore cookie, next to the restored login of a browser whose session ended
FreshPasswords == {"Aa1!aaaa", RESTORED_LOGIN}

NextFresh ==
    \/ sessionCookieExpires
    \/ \E p \in Procs :
            \/ \E password \in FreshPasswords : postSignUp(p, "a@b.com", password)
            \/ commonSignUpNow(p)
            \/ commonSignUpCreate(p)
            \/ postSignUpSignIn(p)
            \/ \E password \in FreshPasswords : localAuthenticate(p, "a@b.com", password)
            \/ tryRestoreLogin(p)
            \/ updateSessionFind(p)
            \/ updateSessionUpdate(p)

SpecFresh == Init /\ [][NextFresh]_vars

\* password changes of accounts from their password to one of two others
NewPasswords == {"aW6+test", "aW7+test"}

InitChangeRace == InitSignedUp(EmailLists, {"Aa1!aaaa"})

NextChangeRace ==
    \E p \in Procs :
        \/ \E email \in Emails, oldPassword \in RawPasswords, newPassword \in NewPasswords :
              changeUserPassword(p, email, oldPassword, newPassword)
        \/ changeUserPasswordUpdate(p)

SpecChangeRace == InitChangeRace /\ [][NextChangeRace]_vars

SignUpPasswords == RawPasswords \cup {""}

\* password sign-in of the site
SitePasswords == RawPasswords \cup {"", RESTORED_LOGIN}

InitSite == InitSignedUp(EmailLists, RawPasswords)

NextSite ==
    \E p \in Procs :
        \/ \E email \in EmailsOrEmpty, password \in SitePasswords :
              localAuthenticate(p, email, password)
        \/ updateSessionFind(p)
        \/ updateSessionUpdate(p)

SpecSite == InitSite /\ [][NextSite]_vars

\* password change next to sign-up with password
NextChange ==
    \E p \in Procs :
        \/ \E email \in Emails, password \in RawPasswords : emailSignUp(p, email, password, "a")
        \/ commonSignUpNow(p)
        \/ commonSignUpCreate(p)
        \/ \E email \in Emails, oldPassword \in RawPasswords, newPassword \in RawPasswords :
              changeUserPassword(p, email, oldPassword, newPassword)
        \/ changeUserPasswordUpdate(p)

SpecChange == Init /\ [][NextChange]_vars

\* sign-in, restored login and sign-out of the site
LoginStep(p) ==
    \/ \E email \in EmailsOrEmpty, password \in SitePasswords :
          localAuthenticate(p, email, password)
    \/ tryRestoreLogin(p)
    \/ updateSessionFind(p)
    \/ updateSessionUpdate(p)

NextLogin ==
    \E p \in Procs :
        \/ LoginStep(p)
        \/ signout(p)

SpecLogin == InitSite /\ [][NextLogin]_vars

\* sign-in and restored login of the site next to sign-up with password
NextLoginSignUp ==
    \E p \in Procs :
        \/ \E email \in Emails, password \in RawPasswords : emailSignUp(p, email, password, "a")
        \/ commonSignUpNow(p)
        \/ commonSignUpCreate(p)
        \/ LoginStep(p)

SpecLoginSignUp == Init /\ [][NextLoginSignUp]_vars

\* POST /signin/password with or without the "remember me" box of the form
NextRemember ==
    \E p \in Procs :
        \/ \E email \in EmailsOrEmpty, password \in SitePasswords, rememberMe \in BOOLEAN :
              localAuthenticateBody(p, email, password, rememberMe)
        \/ updateSessionFind(p)
        \/ updateSessionUpdate(p)

SpecRemember == InitSite /\ [][NextRemember]_vars

\* one or two accounts signed up with the same password
InitPages == InitSignedUp({<<"a@b.com">>, <<"a@b.com", "c@d.com">>}, {"Aa1!aaaa"})

\* the pages of a browser: sign-in, restored login, sign-out, dashboard
NextPages ==
    \E p \in Procs :
        \/ LoginStep(p)
        \/ signout(p)
        \/ getDashboard(p)

SpecPages == InitPages /\ [][NextPages]_vars

\* sign-in and the profile form
NextProfile ==
    \E p \in Procs :
        \/ LoginStep(p)
        \/ \E email \in EmailsOrEmpty, nickname \in Nicknames \cup {""} :
              postProfile(p, email, nickname)

SpecProfile == InitPages /\ [][NextProfile]_vars

\* the table after sign-ups with password and the verification of some of
\* the e-mail addresses
VerifiedRows(rows, flags) ==
    [i \in DOMAIN rows |->
        IF flags[i]
        THEN [rows[i] EXCEPT !.verified = TRUE, !.verify_token = "t1"]
        ELSE rows[i]]

InitApi ==
    /\ \E emails \in {<<"a@b.com">>, <<"a@b.com", "c@d.com">>} :
          \E flags \in [DOMAIN emails -> BOOLEAN], s \in Salts :
             account = VerifiedRows(SignedUp(emails, [i \in DOMAIN emails |-> "Aa1!aaaa"], s),
                                    flags)
    /\ clock = 0
    /\ task = [p \in Procs |-> Idle]
    /\ last = NoCall
    /\ session = [user |-> "", errorMessage |-> ""]
    /\ cookies = NoCookies

\* sign-in and the guarded routes of the user router
NextGuards ==
    \E p \in Procs :
        \/ localAuthenticate(p, "a@b.com", "Aa1!aaaa")
        \/ updateSessionFind(p)
        \/ updateSessionUpdate(p)
        \/ getDashboard(p)
        \/ \E email \in Emails : postProfile(p, email, "b")
        \/ getList(p)
        \/ getListFind(p)

SpecGuards == InitApi /\ [][NextGuards]_vars

\* the steps of Account.getUserStatistics
StatisticsStep(p) ==
    \/ countTotalSignedUp(p)
    \/ countTodayActiveNow(p)
    \/ countTodayActive(p)
    \/ countWeeklyAverageNow(p)
    \/ countWeeklyAverage(p)

\* sign-in and the routes for verified users
NextApi ==
    \E p \in Procs :
        \/ localAuthenticate(p, "a@b.com", "Aa1!aaaa")
        \/ updateSessionFind(p)
        \/ updateSessionUpdate(p)
        \/ getList(p)
        \/ getListFind(p)
        \/ getStatistics(p)
        \/ StatisticsStep(p)

SpecApi == InitApi /\ [][NextApi]_vars

\* the list of users next to sign-up
NextList ==
    \E p \in Procs :
        \/ \E email \in Emails, password \in SignUpPasswords : emailSignUp(p, email, password, "a")
        \/ commonSignUpNow(p)
        \/ commonSignUpCreate(p)
        \/ getUserList(p)

SpecList == Init /\ [][NextList]_vars

\* the statistics of a table whose accounts had their last session at some
\* hour of the days up to 10 November, asked for on 9 or on 10 November
StatisticsSessions == {NULL, <<-200>>, <<-3>>, <<2>>, <<26>>, <<34>>}
StatisticsNows == {5, 29, 36}

InitStatistics ==
    /\ \E emails \in {<<>>, <<"a@b.com">>, <<"a@b.com", "c@d.com">>} :
          \E sessions \in [DOMAIN emails -> StatisticsSessions], s \in Salts :
             account = [i \in DOMAIN emails |->
                          [SignedUp(emails, [k \in DOMAIN emails |-> "Aa1!aaaa"], s)[i]
                             EXCEPT !.created = -240,
                                    !.session = sessions[i],
                                    !.session_count = IF sessions[i] = NULL THEN 0 ELSE 1]]
    /\ clock \in StatisticsNows
    /\ \A i \in DOMAIN account : account[i].session # NULL => account[i].session[1] <= clock
    /\ task = [p \in Procs |-> Idle]
    /\ last = NoCall
    /\ session = [user |-> "", errorMessage |-> ""]
    /\ cookies = NoCookies

NextStatistics ==
    \E p \in Procs :
        \/ getUserStatistics(p)
        \/ StatisticsStep(p)

SpecStatistics == InitStatistics /\ [][NextStatistics]_vars

\* the statistics read while accounts sign up and start sessions
NextStatisticsRace ==
    \/ Tick
    \/ \E p \in Procs :
          \/ getUserStatistics(p)
          \/ StatisticsStep(p)
          \/ emailSignUp(p, "a@b.com", "Aa1!aaaa", "a")
          \/ commonSignUpNow(p)
          \/ commonSignUpCreate(p)
          \/ updateSession(p, "a@b.com", FALSE)
          \/ updateSessionUpdate(p)

SpecStatisticsRace == Init /\ [][NextStatisticsRace]_vars

\* the candidates: the passwords of at most MaxCandidateLength characters, one
\* character of each class and the blank, and the passwords of runSample
MaxCandidateLength == 2

CandidateChars == {"a", "W", "6", "+", " "}

SamplePasswords ==
    {<<"+", "-", "3", "4", "5", "6", "7", "8">>,
     <<"a", "W", "5", "+">>,
     <<"a", "W", "5", "+", "t", "e", "s">>,
     <<"a", "W", "5", "+", "t", "e", "s", "t">>,
     <<"a", "W", "6", "+", "t", "e", "s", "t">>,
     <<"a", "W", "7", "+", "t", "e", "s", "t">>,
     <<"A", "a", "1", "!", "a", "a", "a", "a">>}

Candidates ==
    SamplePasswords
    \cup UNION {[1..n -> CandidateChars] : n \in 0..MaxCandidateLength}

\* no confirmation, the empty one and the one of runSample
Confirmations == {Undefined, <<>>, <<"a", "W", "7", "+", "t", "e", "s", "t">>}

\* checkers with the default length and with a length of 2 characters
CheckerOptions == [strongLength : {0, 2}, enableSampleMessage : BOOLEAN]

\* one task is about to call checkPassword
InitChecker ==
    /\ account = <<>>
    /\ clock = 0
    /\ \E caller \in Procs, options \in CheckerOptions, passwordInput \in Candidates,
          passwordConfirm \in Confirmations :
          task = [p \in Procs |->
                    IF p = caller
                    THEN [Idle EXCEPT !.pc = "cp_call", !.op = "checkPassword",
                                      !.options = options,
                                      !.passwordInput = passwordInput,
                                      !.passwordConfirm = passwordConfirm]
                    ELSE Idle]
    /\ last = NoCall
    /\ session = [user |-> "", errorMessage |-> ""]
    /\ cookies = NoCookies

NextChecker == \E p \in Procs : checkPasswordCall(p)

SpecChecker == InitChecker /\ [][NextChecker]_vars

\* the sign-up form of the site
SignUpEmails == {"", "a@b.com", "a@b", "@b.com", "a@b.comm"}
SignUpFormPasswords == {"", "Aa1!aaaa", "aW5+tes"}

NextSignUpPage ==
    \E p \in Procs :
        \/ \E email \in SignUpEmails, password \in SignUpFormPasswords :
              postSignUp(p, email, password)
        \/ commonSignUpNow(p)
        \/ commonSignUpCreate(p)
        \/ postSignUpSignIn(p)
        \/ updateSessionFind(p)
        \/ updateSessionUpdate(p)

SpecSignUpPage == Init /\ [][NextSignUpPage]_vars

\* sign-ups of one email with and without password, and of another by
\* auth0SignIn, while the database clock advances
NextNewAccount ==
    \/ Tick
    \/ \E p \in Procs :
        \/ \E password \in {"Aa1!aaaa", ""} : emailSignUp(p, "a@b.com", password, "a")
        \/ auth0SignIn(p, "c@d.com", "b")
        \/ commonSignUpFind(p)
        \/ commonSignUpNow(p)
        \/ commonSignUpCreate(p)
        \/ auth0SignInRefind(p)

SpecNewAccount == Init /\ [][NextNewAccount]_vars

\* accounts signed up with and without a password; sign-in and password change
InitSentinel == InitSignedUp(EmailLists, {"", "Aa1!aaaa"})

NextSentinel ==
    \E p \in Procs :
        \/ \E email \in Emails, password \in RawPasswords : emailSignIn(p, email, password)
        \/ \E email \in Emails, oldPassword \in RawPasswords, newPassword \in RawPasswords :
              changeUserPassword(p, email, oldPassword, newPassword)
        \/ changeUserPasswordUpdate(p)

SpecSentinel == InitSentinel /\ [][NextSentinel]_vars

\* the salts that randomBytes may return, and the raw strings hashed
HashSalts == {1, 2}
HashRaws == RawPasswords \cup {""}

\* the hex form of the key of a raw string under a salt, followed by the hex
\* form of the salt: the record of makeHash when the salt has
\* SCRYPT_SALT_LENGTH bytes
RecordOf(rawString, salt) ==
    ToHex(ScryptSync(rawString, salt, SCRYPT_KEY_LENGTH)) \o ToHex(salt)

\* salts of a length other than SCRYPT_SALT_LENGTH: none, half, one more
OddSalts ==
    {[kind |-> "salt", of |-> <<>>, len |-> 0]}
    \cup {[kind |-> "salt", of |-> <<s>>, len |-> n] :
            s \in HashSalts, n \in {SCRYPT_SALT_LENGTH \div 2, SCRYPT_SALT_LENGTH + 1}}

NonHexText == <<[kind |-> "text", of |-> <<"zz">>, len |-> 2]>>

\* the records that makeHash writes
WellFormedRecords == {makeHash(rawString, s) : rawString \in HashRaws, s \in HashSalts}

\* records that makeHash does not write: the sentinel, the empty string, a
\* key followed by a salt of another length, a record followed by text that
\* is not hex, a record cut short
MalformedRecords ==
    {SENTINEL, <<>>}
    \cup {RecordOf(rawString, salt) : rawString \in HashRaws, salt \in OddSalts}
    \cup {RecordOf(rawString, salt) \o NonHexText :
            rawString \in HashRaws, salt \in OddSalts \cup {RandomSalt(1)}}
    \cup {<<record[1]>> : record \in WellFormedRecords}

\* the passwords that callers hand to the hash test of an account
GatePasswords == {"Aa1!aaaa", RawUndefined}

\* one task is about to call makeHash twice, or checkHash once, next to one
\* account signed up with a password
InitHash ==
    /\ \E s \in Salts : account = SignedUp(<<"a@b.com">>, <<"Aa1!aaaa">>, s)
    /\ clock = 0
    /\ \E caller \in Procs :
          \/ \E rawString \in HashRaws :
                task = [p \in Procs |->
                          IF p = caller
                          THEN [Idle EXCEPT !.pc = "mh_call", !.op = "makeHash",
                                            !.password = rawString]
                          ELSE Idle]
          \/ \E rawString \in HashRaws \cup {RawUndefined},
                fullRecord \in WellFormedRecords \cup MalformedRecords \cup {NullRecord} :
                task = [p \in Procs |->
                          IF p = caller
                          THEN [Idle EXCEPT !.pc = "ch_call", !.op = "checkHash",
                                            !.password = rawString, !.hash = fullRecord]
                          ELSE Idle]
    /\ last = NoCall
    /\ session = [user |-> "", errorMessage |-> ""]
    /\ cookies = NoCookies

NextHash ==
    \E p \in Procs :
        \/ \E s \in HashSalts : makeHashCall(p, s)
        \/ \E s \in HashSalts : makeHashAgain(p, s)
        \/ checkHashCall(p)
        \/ \E password \in GatePasswords : emailSignIn(p, "a@b.com", password)
        \/ \E oldPassword \in GatePasswords :
              changeUserPassword(p, "a@b.com", oldPassword, "aW6+test")
        \/ changeUserPasswordUpdate(p)

SpecHash == InitHash /\ [][NextHash]_vars

TypeOK ==
    /\ Len(account) <= MaxAccounts
    /\ clock \in 0..MaxClock

----------------------------------------------------------------------------
(* Properties of sign-up, checked under Spec, and of sign-in, checked under *)
(* SpecSignIn                                                              *)

RowsOf(email) == {i \in DOMAIN account : account[i].email = email}

\* C1: in every reachable state, under any interleaving of sign-ups, at most
\* one account row has a given email.
C1_UniqueEmail ==
    \A i, j \in DOMAIN account : account[i].email = account[j].email => i = j

\* C2: a sign-up for an email that some account already has throws
\* 'E-mail was already used', whatever the password and the nickname, and
\* leaves the table as it was: nothing is inserted and no row is changed, so
\* an email that had exactly one row still has exactly one.
C2_SignUpConflict ==
    [][\A p \in Procs :
         /\ \A email \in Emails, password \in SignUpPasswords, nickname \in Nicknames :
               (emailSignUp(p, email, password, nickname) /\ RowsOf(email) # {})
               => /\ last' = [op |-> "emailSignUp", email |-> email, kind |-> "throw",
                              val |-> "E-mail was already used"]
                  /\ account' = account
                  /\ Cardinality(RowsOf(email)') = Cardinality(RowsOf(email))
         /\ (commonSignUpFind(p) /\ RowsOf(task[p].email) # {})
               => /\ last' = [op |-> task[p].op, email |-> task[p].email, kind |-> "throw",
                              val |-> "E-mail was already used"]
                  /\ account' = account
      ]_vars

C2_Witness ==
    /\ last.op = "emailSignUp"
    /\ last.kind = "throw"
    /\ last.val = "E-mail was already used"
    /\ Cardinality(RowsOf(last.email)) = 1

\* C3: emailSignIn returns true exactly when one single account has the
\* email and checkHash accepts the password against its stored hash; with no
\* account, with several accounts or with a wrong password it returns false;
\* it never changes the table.
C3_SignInIff ==
    [][\A p \in Procs, email \in Emails, password \in RawPasswords :
         emailSignIn(p, email, password)
         => /\ last'.op = "emailSignIn" /\ last'.kind = "return"
            /\ last'.val = (/\ Cardinality(RowsOf(email)) = 1
                            /\ \A i \in RowsOf(email) : checkHash(password, account[i].password))
            /\ (Cardinality(RowsOf(email)) # 1 => last'.val = FALSE)
            /\ account' = account
      ]_vars

C3_Witness ==
    /\ last.op = "emailSignIn"
    /\ last.kind = "return"
    /\ last.val = TRUE
    /\ Cardinality(RowsOf(last.email)) = 1

----------------------------------------------------------------------------
(* Properties of the password sign-in of the site, checked under SpecSite *)

----------------------------------------------------------------------------
(* Properties of the session bookkeeping: C5 is checked under SpecCounters, *)
(* C6 under SpecSession                                                    *)

\* C5: every account has login_count <= session_count in every reachable
\* state.
C5_LoginLeSession ==
    \A i \in DOMAIN account : account[i].login_count <= account[i].session_count

C5_Witness ==
    \E i \in DOMAIN account :
        /\ account[i].login_count >= 1
        /\ account[i].login_count < account[i].session_count

\* C6: updateSession for an email of exactly one account adds 1 to its
\* session_count, sets its session to the database clock and adds 1 to its
\* login_count iff isRestored is false; other rows are not changed; for an
\* email of no or several accounts it returns true and changes nothing.
C6_UpdateSessionEffect ==
    [][\A p \in Procs :
         /\ \A email \in Emails, isRestored \in BOOLEAN :
               (updateSession(p, email, isRestored) /\ Cardinality(RowsOf(email)) # 1)
               => /\ account' = account
                  /\ last' = [op |-> "updateSession", email |-> email, kind |-> "return",
                              val |-> TRUE]
         /\ updateSessionUpdate(p)
               => /\ last' = [op |-> "updateSession", email |-> task[p].email,
                              kind |-> "return", val |-> TRUE]
                  /\ DOMAIN account' = DOMAIN account
                  /\ \A i \in DOMAIN account :
                        IF account[i].email = task[p].email
                        THEN account'[i] =
                               [account[i] EXCEPT
                                  !.session_count = account[i].session_count + 1,
                                  !.session = <<clock>>,
                                  !.login_count = account[i].login_count
                                                  + (IF task[p].isRestored THEN 0 ELSE 1)]
                        ELSE account'[i] = account[i]
      ]_vars

C6_Witness ==
    /\ last.op = "updateSession"
    /\ Cardinality(RowsOf(last.email)) = 1
    /\ \E i \in RowsOf(last.email) :
          /\ account[i].login_count = 2
          /\ account[i].session_count = 3
          /\ account[i].session = <<clock>>
          /\ clock > account[i].created

----------------------------------------------------------------------------
(* Properties of the e-mail verification, checked under SpecVerify *)

\* C7: for an email of exactly one account, updateVerifyToken returns a
\* non-empty token, which is then the verify_token stored for the account;
\* verifyEmail with the token stored for the account finds the row, and its
\* update returns true and leaves verified = true.
C7_VerifyRoundTrip ==
    [][\A p \in Procs :
         /\ (updateVerifyTokenUpdate(p) /\ Cardinality(RowsOf(task[p].email)) = 1)
               => /\ last'.op = "updateVerifyToken" /\ last'.kind = "return"
                  /\ last'.val # ""
                  /\ last'.val = task[p].verifyToken
                  /\ \A i \in RowsOf(task[p].email) : account'[i].verify_token = last'.val
         /\ \A email \in Emails, verifyToken \in Tokens :
               (/\ verifyEmail(p, email, verifyToken)
                /\ Cardinality(RowsOf(email)) = 1
                /\ \A i \in RowsOf(email) : account[i].verify_token = verifyToken)
               => /\ task'[p].pc = "ve_update"
                  /\ account' = account
         /\ (verifyEmailUpdate(p) /\ Cardinality(RowsOf(task[p].email)) = 1)
               => /\ last' = [op |-> "verifyEmail", email |-> task[p].email,
                              kind |-> "return", val |-> TRUE]
                  /\ \A i \in RowsOf(task[p].email) : account'[i].verified = TRUE
      ]_vars

C7_Witness ==
    /\ last.op = "verifyEmail"
    /\ last.kind = "return"
    /\ last.val = TRUE
    /\ \E i \in RowsOf(last.email) :
          account[i].verified /\ account[i].verify_token \in Tokens

\* C8: verifyEmail with a token that no row of the email stores (an older
\* token that a later updateVerifyToken has overwritten, or any other
\* token) returns false, throws nothing and leaves the table, and so the
\* verified flag, as it was.
C8_StaleTokenFails ==
    [][\A p \in Procs, email \in Emails, verifyToken \in Tokens :
         (/\ verifyEmail(p, email, verifyToken)
          /\ \A i \in RowsOf(email) : account[i].verify_token # verifyToken)
         => /\ last' = [op |-> "verifyEmail", email |-> email, kind |-> "return",
                        val |-> FALSE]
            /\ account' = account
      ]_vars

C8_Witness ==
    /\ last.op = "verifyEmail"
    /\ last.kind = "return"
    /\ last.val = FALSE
    /\ \E i \in RowsOf(last.email) :
          account[i].verify_token \in Tokens /\ ~account[i].verified

----------------------------------------------------------------------------
(* Properties of the password change, checked under SpecPassword *)

\* C9: changeUserPassword with the new password equal to the old one throws
\* 'New Password is the same as Old Password', an error other than the one
\* of a wrong old password, whether or not the account exists and the old
\* password is right, and leaves the table as it was.
C9_SamePasswordRejected ==
    [][\A p \in Procs, email \in EmailsOrEmpty, oldPassword \in RawPasswords :
         changeUserPassword(p, email, oldPassword, oldPassword)
         => /\ last' = [op |-> "changeUserPassword", email |-> email, kind |-> "throw",
                        val |-> "New Password is the same as Old Password"]
            /\ last'.val # "Old Password not match"
            /\ account' = account
      ]_vars

C9_Witness ==
    /\ last.op = "changeUserPassword"
    /\ last.kind = "throw"
    /\ last.val = "New Password is the same as Old Password"
    /\ RowsOf(last.email) = {}

\* C10: changeUserPassword with a new password other than the old one throws
\* 'Old Password not match' and leaves the table as it was, unless exactly
\* one account has the email and checkHash accepts the old password against
\* its stored hash; the stored hash is replaced only by the update that
\* follows such a test, which sets the password of that one row to a
\* makeHash record of the new password, changes nothing else and makes the
\* call return 1.
C10_ChangeOnlyWhenOldMatches ==
    [][\A p \in Procs :
         /\ \A email \in EmailsOrEmpty, oldPassword \in RawPasswords,
                  newPassword \in RawPasswords :
               (/\ changeUserPassword(p, email, oldPassword, newPassword)
                /\ oldPassword # newPassword
                /\ ~(/\ Cardinality(RowsOf(email)) = 1
                     /\ \A i \in RowsOf(email) : checkHash(oldPassword, account[i].password)))
               => /\ last' = [op |-> "changeUserPassword", email |-> email,
                              kind |-> "throw", val |-> "Old Password not match"]
                  /\ account' = account
         /\ changeUserPasswordUpdate(p)
               => /\ last' = [op |-> "changeUserPassword", email |-> task[p].email,
                              kind |-> "return", val |-> 1]
                  /\ DOMAIN account' = DOMAIN account
                  /\ \A i \in DOMAIN account :
                        IF account[i].id = task[p].id
                        THEN /\ \E s \in Salts :
                                 account'[i] = [account[i] EXCEPT
                                                  !.password = makeHash(task[p].password, s)]
                             /\ checkHash(task[p].password, account'[i].password)
                        ELSE account'[i] = account[i]
         /\ \A i \in DOMAIN account :
               account'[i].password # account[i].password
               => \E q \in Procs : changeUserPasswordUpdate(q) /\ task[q].id = account[i].id
      ]_vars

C10_Witness ==
    /\ last.op = "changeUserPassword"
    /\ last.kind = "return"
    /\ last.val = 1
    /\ \E i \in RowsOf(last.email), s \in Salts :
          account[i].password = makeHash("aW6+test", s)

\* C11: when a changeUserPassword has replaced the hash and returned, and
\* before any other password change, emailSignIn with the new password is
\* true and emailSignIn with any other password, the old one among them, is
\* false.
C11_ChangeThenSignIn ==
    [][\A p \in Procs, email \in EmailsOrEmpty, newPassword \in RawPasswords :
         (/\ changeUserPasswordUpdate(p)
          /\ task[p].email = email
          /\ task[p].password = newPassword)
         => /\ emailSignInResult(email, newPassword)'
            /\ \A oldPassword \in RawPasswords \ {newPassword} :
                  ~emailSignInResult(email, oldPassword)'
      ]_vars

----------------------------------------------------------------------------
(* Properties of sign-in, restored login and sign-out of the site *)

\* the credentials of a POST /signin/password are valid
ValidSignIn(email, password) ==
    /\ email # ""
    /\ password \notin {"", RESTORED_LOGIN}
    /\ emailSignInResult(email, password)

\* the request carries a restore cookie that tryRestoreLogin follows
Restorable ==
    /\ ~isAuthenticated
    /\ cookies.loginType \in {"", LOCAL_LOGIN}
    /\ cookies.user # ""
    /\ cookies.password # ""

\* C12: a POST /signin/password with valid credentials starts one
\* updateSession with isRestored false and a failed one starts none and
\* changes nothing; a restored login starts one updateSession with isRestored
\* true, whatever the passwords stored; each updateSession of a sign-in
\* updates the counters once and ends with the user authenticated;
\* login_count is raised only by the update of a fresh sign-in, by one, and
\* every fresh sign-in that completes has raised it.
C12_SessionCounters ==
    [][\A p \in Procs :
         /\ \A email \in EmailsOrEmpty, password \in SitePasswords :
               localAuthenticate(p, email, password)
               => /\ account' = account
                  /\ IF ValidSignIn(email, password)
                     THEN /\ task'[p].pc = "us_find"
                          /\ task'[p].email = email
                          /\ ~task'[p].isRestored
                     ELSE /\ task'[p].pc = "idle"
                          /\ session'.user = session.user
         /\ (tryRestoreLogin(p) /\ Restorable)
               => /\ account' = account
                  /\ task'[p].pc = "us_find"
                  /\ task'[p].email = cookies.user
                  /\ task'[p].isRestored
         /\ updateSessionFind(p) => task'[p].pc = "us_update"
         /\ updateSessionUpdate(p)
               => /\ task'[p].pc = "idle"
                  /\ session'.user = task[p].email
         /\ \A i \in DOMAIN account :
               account'[i].login_count # account[i].login_count
               => /\ account'[i].login_count = account[i].login_count + 1
                  /\ \E q \in Procs : /\ updateSessionUpdate(q)
                                       /\ ~task[q].isRestored
                                       /\ task[q].email = account[i].email
      ]_vars

\* C13: a fresh sign-in that succeeds issues the restore cookies user = email,
\* loginType, password = RESTORED_LOGIN when "remember me" was requested, and
\* sets no cookie when it was not.
C13_RestoreCookie ==
    [][\A p \in Procs :
         (updateSessionUpdate(p) /\ task[p].op = "POST /signin/password")
         => IF task[p].rememberMe
            THEN /\ cookies'.user = task[p].email
                 /\ cookies'.loginType = LOCAL_LOGIN
                 /\ cookies'.password = RESTORED_LOGIN
            ELSE cookies' = cookies
      ]_vars

\* neither the session nor the restore cookie carries a user
SignedOut == ~isAuthenticated /\ cookies.user = ""

C15_NicknameByOwner ==
    [][\A i \in DOMAIN account :
         account'[i].nickname # account[i].nickname
         => /\ isAuthenticated
            /\ account[i].email = session.user
      ]_vars

----------------------------------------------------------------------------
(* Properties of the guards and of the guarded routes *)

\* C16: for a request without signed-in user, securePage sets the cookie
\* lastPage to the path of the request and redirects to /signin, and
\* secureApi answers 401 with the empty JSON object, sets no cookie and does
\* not redirect; in both cases the handler does not run: the table is left
\* alone and no task is started.  With a signed-in user the handler runs.
C16_Guards ==
    [][\A p \in Procs :
         /\ getDashboard(p)
               => /\ cookies'.lastPage = USER_HOME
                  /\ last'.op = "GET /user/dashboard"
                  /\ IF isAuthenticated
                     THEN last'.val.status = 200 /\ last'.val.view = "dashboard.ejs"
                     ELSE last'.val = Redirect("/signin") /\ account' = account
         /\ \A email \in Emails, nickname \in Nicknames :
               postProfile(p, email, nickname)
               => /\ cookies'.lastPage = USER_PROFILE
                  /\ last'.op = "POST /user/profile"
                  /\ IF isAuthenticated
                     THEN /\ last'.val = Redirect(USER_PROFILE)
                          /\ \A i \in RowsOf(email) : account'[i].nickname = nickname
                     ELSE last'.val = Redirect("/signin") /\ account' = account
         /\ getList(p)
               => /\ cookies' = cookies
                  /\ account' = account
                  /\ IF isAuthenticated
                     THEN \/ task'[p].pc = "ul_find"
                          \/ last' = [op |-> "GET /user/list", email |-> session.user,
                                      kind |-> "response", val |-> Forbidden]
                     ELSE /\ task'[p].pc = "idle"
                          /\ last' = [op |-> "GET /user/list", email |-> "",
                                      kind |-> "response",
                                      val |-> [status |-> 401, json |-> <<>>]]
      ]_vars

\* the list was refused with 401 to a browser that the page guard had sent
\* to the sign-in page before
C16_Witness ==
    /\ last.op = "GET /user/list"
    /\ last.kind = "response"
    /\ last.val = [status |-> 401, json |-> <<>>]
    /\ cookies.lastPage = USER_PROFILE
    /\ ~isAuthenticated

\* the signed-in user has exactly one account and it is verified
SignedInVerified ==
    /\ Cardinality(RowsOf(session.user)) = 1
    /\ \A i \in RowsOf(session.user) : account[i].verified

\* C17: GET /user/list and GET /user/statistics of a signed-in user whose
\* account is not verified are answered 403 and start neither getUserList
\* nor getUserStatistics; those of a verified user start them; what the two
\* routes return as data goes to a user whose account is verified.
C17_VerifiedOnly ==
    [][\A p \in Procs :
         /\ (getList(p) /\ isAuthenticated)
               => IF SignedInVerified
                  THEN task'[p].pc = "ul_find"
                  ELSE /\ task'[p].pc = "idle"
                       /\ last' = [op |-> "GET /user/list", email |-> session.user,
                                   kind |-> "response", val |-> Forbidden]
         /\ (getStatistics(p) /\ isAuthenticated)
               => IF SignedInVerified
                  THEN task'[p].pc = "st_total"
                  ELSE /\ task'[p].pc = "idle"
                       /\ last' = [op |-> "GET /user/statistics", email |-> session.user,
                                   kind |-> "response", val |-> Forbidden]
         /\ (getListFind(p) \/ (countWeeklyAverage(p) /\ task[p].op = "GET /user/statistics"))
               => /\ last'.val.status = 200
                  /\ \E i \in RowsOf(task[p].email) : account[i].verified
      ]_vars

\* the statistics were refused to a@b.com, which is not verified, in a table
\* where c@d.com is
C17_Witness ==
    /\ last = [op |-> "GET /user/statistics", email |-> "a@b.com",
               kind |-> "response", val |-> Forbidden]
    /\ session.user = "a@b.com"
    /\ \E i \in DOMAIN account : account[i].verified

----------------------------------------------------------------------------
(* Properties of the list of users and of the statistics *)

\* C18: whatever the table, getUserList returns one record for each row of
\* the table and no other, by id ascending; no record has a field password,
\* and its other fields are those of the row; the table is not changed.
C18_UserList ==
    [][\A p \in Procs :
         getUserList(p)
         => /\ last'.op = "getUserList" /\ last'.kind = "return"
            /\ Len(last'.val) = Len(account)
            /\ \A i \in DOMAIN account :
                  Cardinality({k \in DOMAIN last'.val : last'.val[k].id = account[i].id}) = 1
            /\ \A k \in DOMAIN last'.val :
                  /\ "password" \notin DOMAIN last'.val[k]
                  /\ \E i \in DOMAIN account :
                        /\ DOMAIN last'.val[k] = DOMAIN account[i] \ {"password"}
                        /\ \A f \in DOMAIN last'.val[k] : last'.val[k][f] = account[i][f]
            /\ \A k, l \in DOMAIN last'.val : k < l => last'.val[k].id < last'.val[l].id
            /\ account' = account
      ]_vars

\* the list of a table of two accounts, one of them without password
C18_Witness ==
    /\ last.op = "getUserList"
    /\ last.kind = "return"
    /\ Len(last.val) = 2
    /\ Len(account) = 2
    /\ \E i \in DOMAIN account : account[i].password = SENTINEL

\* midnight, in the time zone of the server, of the day of an instant
LocalDayStart(date) == (date \div TIME_ONE_DAY) * TIME_ONE_DAY

\* the accounts whose last session lies between two instants
ActiveBetween(from, to) ==
    {i \in DOMAIN account :
        /\ account[i].session # NULL
        /\ from <= account[i].session[1]
        /\ account[i].session[1] <= to}

\* C19: on a table and a clock that do not change during the call,
\* getUserStatistics returns totalCount = the number of rows, todayActive =
\* the number of accounts whose last session lies between local midnight of
\* today and now, and a weeklyAverage whose seven-fold is the number of
\* accounts whose last session lies in the seven days up to now; with no
\* account it returns 0, 0, 0.
C19_Statistics ==
    [][\A p \in Procs :
         (countWeeklyAverage(p) /\ task[p].op = "getUserStatistics")
         => /\ last'.op = "getUserStatistics" /\ last'.kind = "return"
            /\ last'.val.totalCount = Len(account)
            /\ last'.val.todayActive = Cardinality(ActiveBetween(LocalDayStart(clock), clock))
            /\ 7 * last'.val.weeklyAverage.num
                  = last'.val.weeklyAverage.den
                    * Cardinality(ActiveBetween(clock - 7 * TIME_ONE_DAY, clock))
            /\ (account = <<>>
                  => /\ last'.val.totalCount = 0
                     /\ last'.val.todayActive = 0
                     /\ last'.val.weeklyAverage.num = 0)
      ]_vars

----------------------------------------------------------------------------
(* Properties of the password checker, checked under SpecChecker *)

\* the notes of a result that carry a code
NotesOf(result, code) ==
    {k \in DOMAIN result.invalidNotes : result.invalidNotes[k].note = code}

\* C20: checkPassword tests every candidate against each of the five
\* rules: the result has exactly one note, with the code of the rule, for
\* each rule that the candidate fails and none for a rule that it passes,
\* whatever the other rules say; the five codes differ; isValid is true iff
\* there is no note; the empty password gets the five notes and, with the
\* default length of 8, a password of 8 characters with a lower-case letter,
\* an upper-case letter, a digit and a symbol gets none.
C20_CheckPassword ==
    [][\A p \in Procs :
         checkPasswordCall(p)
              => LET result == last'.val
                     options == task[p].options
                     passwordInput == task[p].passwordInput
                     passwordConfirm == task[p].passwordConfirm
                     Fails(code) ==
                        CASE code = PASSWORD_NO_LOWER_CHAR ->
                               \A i \in DOMAIN passwordInput : passwordInput[i] \notin RX_LOWER
                          [] code = PASSWORD_NO_UPPER_CHAR ->
                               \A i \in DOMAIN passwordInput : passwordInput[i] \notin RX_UPPER
                          [] code = PASSWORD_NO_DIGIT_CHAR ->
                               \A i \in DOMAIN passwordInput : passwordInput[i] \notin RX_DIGIT
                          [] code = PASSWORD_NO_SYMBOL_CHAR ->
                               \A i \in DOMAIN passwordInput : passwordInput[i] \notin RX_SPECIAL
                          [] code = PASSWORD_TOO_SHORT ->
                               Len(passwordInput) < strongLength(options)
                     BaseCodes == {PASSWORD_NO_LOWER_CHAR, PASSWORD_NO_UPPER_CHAR,
                                   PASSWORD_NO_DIGIT_CHAR, PASSWORD_NO_SYMBOL_CHAR,
                                   PASSWORD_TOO_SHORT}
                 IN  /\ Cardinality(BaseCodes) = 5
                     /\ result.input = passwordInput
                     /\ \A code \in BaseCodes :
                           Cardinality(NotesOf(result, code)) = IF Fails(code) THEN 1 ELSE 0
                     /\ result.isValid <=> (result.invalidNotes = <<>>)
                     /\ (passwordInput = <<>>
                           => \A code \in BaseCodes : Cardinality(NotesOf(result, code)) = 1)
                     /\ (/\ Len(passwordInput) = 8
                         /\ strongLength(options) = 8
                         /\ passwordConfirm = Undefined
                         /\ \A code \in BaseCodes \ {PASSWORD_TOO_SHORT} : ~Fails(code))
                           => result.invalidNotes = <<>> /\ result.isValid
      ]_vars

\* a password of two characters was checked against the default length: it
\* fails several rules and has a note for each
C20_Witness ==
    /\ last.op = "checkPassword"
    /\ last.val.input = <<"a", " ">>
    /\ ~last.val.isValid
    /\ Len(last.val.invalidNotes) = 4

\* a candidate passes the five rules of a checker
BaseRulesPass(options, passwordInput) ==
    /\ hasLowerCharacter(passwordInput)
    /\ hasUpperCharacter(passwordInput)
    /\ hasDigitCharacter(passwordInput)
    /\ hasSpecialCharacter(passwordInput)
    /\ hasStrongLength(options, passwordInput)

\* C21: when checkPassword is given a confirmation string and the candidate
\* passes the five rules, the result has the note PASSWORD_CONFIRM_NOT_SAME
\* iff the confirmation differs from the candidate, and then no other note;
\* when the candidate fails one of the five rules the result never has that
\* note, whatever the confirmation.
C21_Confirmation ==
    [][\A p \in Procs :
         checkPasswordCall(p)
         => LET result == last'.val
                options == task[p].options
                passwordInput == task[p].passwordInput
                passwordConfirm == task[p].passwordConfirm
                mismatch == NotesOf(result, PASSWORD_CONFIRM_NOT_SAME) # {}
            IN  IF BaseRulesPass(options, passwordInput)
                THEN passwordConfirm # Undefined
                     => /\ mismatch <=> (passwordConfirm # passwordInput)
                        /\ mismatch => Len(result.invalidNotes) = 1
                ELSE ~mismatch
      ]_vars

----------------------------------------------------------------------------
(* Properties of the password hasher, checked under SpecHash *)

\* C22: checkHash accepts a raw string against every record that makeHash
\* makes of it, whichever salt was drawn: the one of a first call, the one
\* of a second call, and every such record handed to checkHash; two calls of
\* makeHash on the same string whose salts differ return different records.
C22_HashRoundTrip ==
    [][\A p \in Procs :
         /\ \A s \in HashSalts :
               makeHashCall(p, s) => checkHash(task[p].password, task'[p].hash)
         /\ \A s \in HashSalts :
               makeHashAgain(p, s)
               => /\ checkHash(task[p].password, last'.val.first)
                  /\ checkHash(task[p].password, last'.val.second)
                  /\ s # task[p].salt => last'.val.first # last'.val.second
         /\ (/\ checkHashCall(p)
             /\ \E s \in HashSalts : task[p].hash = makeHash(task[p].password, s))
               => last' = [op |-> "checkHash", email |-> task[p].password,
                           kind |-> "return", val |-> TRUE]
      ]_vars

\* two calls of makeHash on one string returned different records
C22_Witness ==
    /\ last.op = "makeHash"
    /\ last.kind = "return"
    /\ last.email = "Aa1!aaaa"
    /\ last.val.first # last.val.second

----------------------------------------------------------------------------
(* Properties of accounts without password, checked under SpecSentinel *)

\* the email of an account that was signed up without password
Passwordless(email) ==
    \E i \in RowsOf(email) : account[i].password = SENTINEL

\* C23 as stated: the sentinel is not null and checkHash rejects every raw
\* string against it; emailSignIn on an account without password is false
\* for every password; changeUserPassword on it throws 'Old Password not
\* match' for every old and new password; the account keeps the sentinel.
C23_SentinelMismatch ==
    [][\A p \in Procs, email \in Emails :
         Passwordless(email)
         => /\ SENTINEL # NULL /\ SENTINEL # NullRecord
            /\ \A rawString \in HashRaws : ~checkHash(rawString, SENTINEL)
            /\ \A password \in RawPasswords :
                  emailSignIn(p, email, password) => last'.val = FALSE
            /\ \A oldPassword \in RawPasswords, newPassword \in RawPasswords :
                  changeUserPassword(p, email, oldPassword, newPassword)
                  => /\ last'.kind = "throw"
                     /\ last'.val = "Old Password not match"
            /\ \A i \in RowsOf(email) :
                  account[i].password = SENTINEL => account'[i] = account[i]
      ]_vars

\* C23, amended: as above, but changeUserPassword on an account without
\* password throws 'New Password is the same as Old Password' when the two
\* passwords given are equal, and 'Old Password not match' otherwise; no
\* call starts an update, and the account keeps the sentinel.
C23_Sentinel ==
    [][\A p \in Procs, email \in Emails :
         Passwordless(email)
         => /\ SENTINEL # NULL /\ SENTINEL # NullRecord
            /\ \A rawString \in HashRaws : ~checkHash(rawString, SENTINEL)
            /\ \A password \in RawPasswords :
                  emailSignIn(p, email, password) => last'.val = FALSE
            /\ \A oldPassword \in RawPasswords, newPassword \in RawPasswords :
                  changeUserPassword(p, email, oldPassword, newPassword)
                  => /\ last'.kind = "throw"
                     /\ last'.val = IF oldPassword = newPassword
                                    THEN "New Password is the same as Old Password"
                                    ELSE "Old Password not match"
                     /\ task'[p].pc = "idle"
            /\ \A i \in RowsOf(email) :
                  account[i].password = SENTINEL => account'[i] = account[i]
      ]_vars

\* a password change on an account without password failed with the
\* mismatch of the old password, next to an account that has a password
C23_Witness ==
    /\ last.op = "changeUserPassword"
    /\ last.kind = "throw"
    /\ last.val = "Old Password not match"
    /\ Passwordless(last.email)
    /\ \E i \in DOMAIN account : account[i].password # SENTINEL

\* C24: checkHash returns a boolean, and never throws, for every raw string
\* and every record, a null record and an undefined raw string among them,
\* and returns false for every record that makeHash does not write;
\* emailSignIn and changeUserPassword never throw out of the hash test.
C24_CheckHashNeverThrows ==
    [][\A p \in Procs :
         /\ checkHashCall(p)
               => /\ last'.kind = "return"
                  /\ last'.val \in BOOLEAN
                  /\ task[p].hash \notin WellFormedRecords => last'.val = FALSE
         /\ \A password \in GatePasswords :
               emailSignIn(p, "a@b.com", password) => last'.kind = "return"
         /\ \A oldPassword \in GatePasswords :
               changeUserPassword(p, "a@b.com", oldPassword, "aW6+test")
               => last'.val # "TypeError"
      ]_vars

\* C25: checkHash returns true only for a record of exactly
\* 2 * SCRYPT_KEY_LENGTH + 2 * SCRYPT_SALT_LENGTH hex characters: a record
\* whose key is the one derived from its own tail, but whose tail is a salt
\* of another length, the empty salt among them, is rejected.
C25_FixedRecordLength ==
    [][\A p \in Procs :
         (checkHashCall(p) /\ last'.kind = "return" /\ last'.val = TRUE)
         => StrLength(task[p].hash) = 2 * SCRYPT_KEY_LENGTH + 2 * SCRYPT_SALT_LENGTH
      ]_vars

----------------------------------------------------------------------------
(* Properties of the new account, checked under SpecNewAccount *)

\* C26: a sign-up that found its email unused reads the database clock and
\* then inserts exactly one row, leaving the other rows as they were; the
\* row has the email, login_count 0, session_count 0, no session, the clock
\* value read as created, a password that is not null (a record that
\* checkHash accepts for the password given, or the sentinel when none was
\* given), verified false for emailSignUp and true for the sign-up of
\* auth0SignIn; emailSignUp returns 1.
C26_NewAccount ==
    [][\A p \in Procs :
         /\ commonSignUpNow(p) => task'[p].now = clock
         /\ commonSignUpCreate(p)
               => LET t == task[p]
                      n == Len(account)
                  IN  /\ Len(account') = n + 1
                      /\ SubSeq(account', 1, n) = account
                      /\ account'[n + 1].email = t.email
                      /\ account'[n + 1].login_count = 0
                      /\ account'[n + 1].session_count = 0
                      /\ account'[n + 1].session = NULL
                      /\ account'[n + 1].created = t.now
                      /\ t.now \in 0..clock
                      /\ account'[n + 1].password \notin {NullRecord, <<>>}
                      /\ IF t.password # ""
                         THEN checkHash(t.password, account'[n + 1].password)
                         ELSE account'[n + 1].password = SENTINEL
                      /\ account'[n + 1].verified = (t.op = "auth0SignIn")
                      /\ t.op = "emailSignUp"
                            => last' = [op |-> "emailSignUp", email |-> t.email,
                                        kind |-> "return", val |-> 1]
      ]_vars

\* an account made by emailSignUp and one made by auth0SignIn after the
\* clock advanced
C26_Witness ==
    /\ Len(account) = 2
    /\ account[1].verified = FALSE
    /\ account[1].password # SENTINEL
    /\ account[2].verified = TRUE
    /\ account[2].password = SENTINEL
    /\ account[2].created = 1
    /\ \A p \in Procs : task[p].pc = "idle"

----------------------------------------------------------------------------
(* Properties of the sign-up form, checked under SpecSignUpPage *)

\* C27: POST /signup/password without email, with an email that is no
\* address (no top-level part, no local part, a top-level part of four
\* characters), without password or with a password that the checker
\* rejects sends the browser back to the sign-up page with a message,
\* starts no insert, leaves the table and the restore cookies as they were
\* and signs nobody in: the user of the session is who it was, so a client
\* that was not signed in is not signed in afterwards.
C27_InvalidFormNotPersisted ==
    [][\A p \in Procs, email \in SignUpEmails, password \in SignUpFormPasswords :
         (/\ postSignUp(p, email, password)
          /\ \/ email \in {"", "a@b", "@b.com", "a@b.comm"}
             \/ password \in {"", "aW5+tes"})
         => /\ account' = account
            /\ task'[p].pc = "idle"
            /\ PendingInsert' = PendingInsert
            /\ session'.user = session.user
            /\ session'.errorMessage # ""
            /\ cookies' = cookies
            /\ last' = [op |-> "POST /signup/password", email |-> email,
                        kind |-> "response", val |-> Redirect("/signup")]
      ]_vars

\* a form with a password of seven characters was sent back while an
\* account exists and nobody is signed in
C27_Witness ==
    /\ last.op = "POST /signup/password"
    /\ last.val = Redirect("/signup")
    /\ session.errorMessage = "Password must contain at least 8 characters"
    /\ session.user = ""
    /\ account # <<>>

----------------------------------------------------------------------------
(* Properties of the verification e-mail, checked under SpecMail *)

\* C28: when sendVerificationEmail has updated the token of the one account
\* of its email, the message it hands to sgMail.send carries the token that
\* the account holds at that moment, and the call returns to its caller;
\* when sgMail.send fails, the error is logged and not thrown, the table
\* stays as it was, and a token that the account still holds is found by
\* verifyEmail, which goes on to mark the account verified.
C28_MailFailureIsolated ==
    [][\A p \in Procs :
         /\ (sendVerificationEmailUpdate(p) /\ Cardinality(RowsOf(task[p].email)) = 1)
               => /\ task'[p].pc = "mail_sent"
                  /\ task'[p].verifyToken = task[p].verifyToken
                  /\ \A i \in RowsOf(task[p].email) :
                        account'[i].verify_token = task[p].verifyToken
                  /\ last' = [op |-> "sendVerificationEmail", email |-> task[p].email,
                              kind |-> "return", val |-> "undefined"]
         /\ sgMailSettle(p, FALSE)
               => /\ account' = account
                  /\ last'.kind = "log"
                  /\ task'[p].pc = "idle"
         /\ \A email \in Emails, verifyToken \in Tokens :
               (/\ verifyEmail(p, email, verifyToken)
                /\ last.op = "sgMail.send" /\ last.kind = "log"
                /\ last.email = email /\ last.val = verifyToken
                /\ \E i \in RowsOf(email) : account[i].verify_token = verifyToken)
               => task'[p].pc = "ve_update"
      ]_vars

\* an account was verified by the token of a mail that could not be sent
C28_Witness ==
    /\ last.op = "sgMail.send"
    /\ last.kind = "log"
    /\ \E i \in RowsOf(last.email) :
          account[i].verify_token = last.val /\ ~account[i].verified
    /\ \E p \in Procs :
          /\ task[p].pc = "ve_update"
          /\ task[p].email = last.email
          /\ task[p].verifyToken = last.val

----------------------------------------------------------------------------
(* Properties of concurrent calls on one account, checked under SpecVerify *)
(* and under SpecChangeRace                                                *)

\* C29: verifyEmail marks an account verified only if, at the moment of the
\* write, the account holds the token that the call was given: under every
\* interleaving with an updateVerifyToken that replaces the token, the
\* replaced token marks no account verified.
C29_VerifyByCurrentToken ==
    [][\A p \in Procs :
         verifyEmailUpdate(p)
         => \A i \in RowsOf(task[p].email) :
               (account'[i].verified /\ ~account[i].verified)
               => account[i].verify_token = task[p].verifyToken
      ]_vars

\* C30: changeUserPassword replaces the hash of an account only if the hash
\* stored at the moment of the write still accepts the old password that the
\* call was given: of two concurrent calls with the same right old password
\* and different new passwords, at most one writes and returns 1.
C30_ChangeByCurrentHash ==
    [][\A p \in Procs :
         (changeUserPasswordUpdate(p) /\ last'.val = 1)
         => \A i \in RowsOf(task[p].email) :
               checkHash(task[p].oldPassword, account[i].password)
      ]_vars

----------------------------------------------------------------------------
(* Properties of concurrent session updates, checked under SpecSession *)

\* the calls of updateSession for the email of row i that have found the
\* row and not yet written: all of them, and those that count a login
WritesPending(i) ==
    {q \in Procs : task[q].pc = "us_update" /\ task[q].email = account[i].email}

LoginsPending(i) == {q \in WritesPending(i) : ~task[q].isRestored}

\* C31: no update of the counters is lost, whatever the interleaving of the
\* calls of updateSession for one account: every call that finds the one
\* row of its email goes on to write, and in every step the session_count
\* of a row plus the number of calls still to write grows by exactly the
\* number of calls that start in the step, and so does the login_count with
\* the calls that are not restored; so N calls, K of them not restored,
\* leave session_count N higher and login_count K higher.
C31_NoLostUpdates ==
    [][/\ \A p \in Procs, email \in Emails, isRestored \in BOOLEAN :
            (updateSession(p, email, isRestored) /\ Cardinality(RowsOf(email)) = 1)
            => /\ task'[p].pc = "us_update"
               /\ task'[p].email = email
               /\ task'[p].isRestored = isRestored
       /\ \A i \in DOMAIN account :
            LET started == {p \in Procs : task[p].pc = "idle" /\ task'[p].pc = "us_update"
                                          /\ task'[p].email = account[i].email}
                logins == {p \in started : ~task'[p].isRestored}
            IN  /\ account'[i].session_count + Cardinality(WritesPending(i)')
                     = account[i].session_count + Cardinality(WritesPending(i))
                       + Cardinality(started)
                /\ account'[i].login_count + Cardinality(LoginsPending(i)')
                     = account[i].login_count + Cardinality(LoginsPending(i))
                       + Cardinality(logins)
      ]_vars

\* one call has written while another call for the same account, which
\* found the row before that write, is still to write
C31_Witness ==
    \E i \in DOMAIN account :
        /\ account[i].session_count = 2
        /\ account[i].login_count = 1
        /\ WritesPending(i) # {}

----------------------------------------------------------------------------
(* Properties of the stored token, checked under SpecVerify *)

\* C32: an account stores a verify_token only while a verification is
\* outstanding: a token is stored only by updateVerifyToken, and when
\* verifyEmail has marked the account verified the token is no longer
\* stored, so that a second verifyEmail with the same token, with no
\* updateVerifyToken in between, returns false.
C32_TokenWhileOutstanding ==
    [][\A p \in Procs :
         /\ \A i \in DOMAIN account :
               (account'[i].verify_token # account[i].verify_token
                /\ account'[i].verify_token # "NULL")
               => \E q \in Procs : updateVerifyTokenUpdate(q)
         /\ (verifyEmailUpdate(p) /\ last'.val = TRUE)
               => \A i \in RowsOf(task[p].email) : account'[i].verify_token = "NULL"
         /\ \A email \in Emails, verifyToken \in Tokens :
               (/\ verifyEmail(p, email, verifyToken)
                /\ last = [op |-> "verifyEmail", email |-> email, kind |-> "return",
                           val |-> TRUE]
                /\ \A q \in Procs : task[q].pc = "idle"
                /\ \A i \in RowsOf(email) : account[i].verified)
               => last' = [op |-> "verifyEmail", email |-> email, kind |-> "return",
                           val |-> FALSE]
      ]_vars

----------------------------------------------------------------------------
(* Frame of the store operations, checked under SpecStore *)

\* C33: in every step of sign-up, sign-in, updateSession,
\* changeUserPassword, changeUserNickname, updateVerifyToken and
\* verifyEmail, every row stays in the table at its place with its id, email
\* and created, a row that was verified stays verified, and login_count and
\* session_count do not decrease; ids are those of the places, so no two
\* rows share one.
C33_Frame ==
    [][/\ Len(account') >= Len(account)
       /\ \A i \in DOMAIN account :
            /\ account'[i].id = account[i].id
            /\ account'[i].email = account[i].email
            /\ account'[i].created = account[i].created
            /\ account[i].verified => account'[i].verified
            /\ account'[i].login_count >= account[i].login_count
            /\ account'[i].session_count >= account[i].session_count
       /\ \A i \in DOMAIN account' : account'[i].id = i
      ]_vars

\* an account that was created after the clock advanced has been verified,
\* has signed in, and has a new nickname and a new password
C33_Witness ==
    \E i \in DOMAIN account :
        /\ account[i].verified
        /\ account[i].created = 1
        /\ account[i].session_count >= 1
        /\ account[i].nickname = "b"
        /\ checkHash("aW6+test", account[i].password)

----------------------------------------------------------------------------
(* Properties of the restore sentinel, checked under SpecFresh *)

C35_AuthenticatedHasOneAccount ==
    isAuthenticated => Cardinality(RowsOf(session.user)) = 1
----------------------------------------------------------------------------
(* Properties of POST /user/reset-password, checked under SpecReset *)

\* the text is a decimal numeral
IsNumeral(chars) == chars # <<>> /\ \A k \in DOMAIN chars : IsDigit(chars[k])

\* the policy of the site accepts the password
PolicyAccepts(password) ==
    checkPassword(SiteCheckerOptions, CharsOf(password), Undefined).isValid

\* C36: a POST /user/reset-password that is not authenticated or whose
\* userId is not numeric is answered 401 and starts nothing; one whose userId
\* is the id of a row with an email other than the session's starts nothing;
\* a change is started only for the session's email with a new password that
\* the policy accepts, goes on to the update only when the old password
\* matches the hash of the row, and a password of the table changes only in
\* the update of such a request, in the rows of its email, to a hash of its
\* new password.
C36_ResetOnlyOwnPassword ==
    [][\A p \in Procs :
         /\ \A userId \in UserIds, oldPassword \in RawPasswords, newPassword \in ResetPasswords :
               postResetPassword(p, userId, oldPassword, newPassword)
               => /\ (~isAuthenticated \/ ~IsNumeral(userId))
                        => /\ task'[p].pc = "idle"
                           /\ last'.val = NotSignedIn
                  /\ (\E i \in DOMAIN account :
                         /\ ~parseInt(userId).isNaN
                         /\ account[i].id = parseInt(userId).val
                         /\ account[i].email # session.user)
                        => task'[p].pc = "idle"
                  /\ task'[p].pc = "rp_change"
                        => /\ isAuthenticated
                           /\ task'[p].email = session.user
                           /\ PolicyAccepts(newPassword)
         /\ (postResetPasswordChange(p) /\ task'[p].pc = "cp_update")
               => \E i \in DOMAIN account :
                     /\ account[i].email = task[p].email
                     /\ checkHash(task[p].oldPassword, account[i].password)
         /\ \A i \in DOMAIN account :
               account'[i].password # account[i].password
               => \E q \in Procs :
                     /\ changeUserPasswordUpdate(q)
                     /\ task[q].op = RESET_PASSWORD
                     /\ account[i].email = task[q].email
                     /\ PolicyAccepts(task[q].password)
                     /\ checkHash(task[q].password, account'[i].password)
      ]_vars
----------------------------------------------------------------------------
(* Properties of the list of accounts next to the verification tokens,     *)
(* checked under SpecListTokens                                            *)

\* C37: no record returned by getUserList has a password field, and none
\* carries a verify_token that is the token stored for the email of the
\* record, the value that verifyEmail accepts for that email.
C37_ListHidesCredentials ==
    (last.op = "getUserList" /\ last.kind = "return")
    => \A k \in DOMAIN last.val :
          LET record == last.val[k] IN
          /\ "password" \notin DOMAIN record
          /\ ~ /\ "verify_token" \in DOMAIN record
               /\ record.verify_token # "NULL"
               /\ \E i \in DOMAIN account :
                     /\ account[i].email = record.email
                     /\ account[i].verify_token = record.verify_token
----------------------------------------------------------------------------
(* Properties of the mails handed to the sender, checked under SpecMail *)

\* C38: every step that hands a verification mail to the sender hands it
\* with a token that is not empty and that every row of the mail's email
\* holds after the step, written by the update of that step, and the email
\* has a row; so a call whose issuance fails hands over no mail.
C38_MailCarriesStoredToken ==
    [][\A p \in Procs :
         (task[p].pc # "mail_sent" /\ task'[p].pc = "mail_sent")
         => /\ task'[p].verifyToken # ""
            /\ sendVerificationEmailUpdate(p)
            /\ RowsOf(task'[p].email) # {}
            /\ \A i \in RowsOf(task'[p].email) :
                  account'[i].verify_token = task'[p].verifyToken
      ]_vars
----------------------------------------------------------------------------
(* Properties of the statistics next to sign-ups and session updates,      *)
(* checked under SpecStatisticsRace                                        *)

\* C39: in every value that getUserStatistics returns, todayActive is at
\* most totalCount and seven times weeklyAverage is at most totalCount.
C39_ConsistentStatistics ==
    (last.op = "getUserStatistics" /\ last.kind = "return")
    => /\ last.val.todayActive <= last.val.totalCount
       /\ 7 * last.val.weeklyAverage.num <= last.val.weeklyAverage.den * last.val.totalCount
====
